---------------------------- MODULE Spec2Model ----------------------------
(***************************************************************************)
(* Point-cloud converter: reader.py, downsampler.py, exporter.py and cli.py *)
(* as given in AGENTS.md (src/unnamed/part_000); the viewer's text loader   *)
(* parsePLY (src/viewer/js/main.js); the scene-list handler                 *)
(* (src/api/models.js); and the region filter of the converter, whose code  *)
(* is not part of the sources and is modelled from its specification.       *)
(*                                                                         *)
(* Numbers.  Coordinates are small integers (exact in float32).  A voxel   *)
(* size is a float; it is modelled as a record [k, v]: k = "fin" with v    *)
(* the value in units of 1/Scale (rounded down where the float result is   *)
(* rounded), or k = "inf" / "nan" / "cplx" for the non-finite and complex  *)
(* values that numpy and Python produce instead of raising.                *)
(***************************************************************************)
EXTENDS Integers, Sequences, FiniteSets, TLC

\* ---- bounds of the model ------------------------------------------------
MaxN      == 4      \* longest input point sequence
MaxTarget == 3      \* largest explicit target_count
FracBits  == 5      \* fractional bits kept for a voxel size
MaxRows   == 2      \* most vertex rows of a file given to the two readers
DcDen     == 8      \* an f_dc value is a multiple of 1/DcDen ...
MaxDc     == 16     \* ... between -MaxDc/DcDen and MaxDc/DcDen
MaxFilterN == 3     \* longest point sequence given to the region filter
RadiusDen == 2      \* a radius_fraction is a multiple of 1/RadiusDen ...
MaxRadius == 4      \* ... up to MaxRadius/RadiusDen
MaxEntries == 3     \* most entries of a default_scenes directory
MaxVoxelN == 3      \* longest point sequence given to the voxel grid directly
MaxLoads  == 2      \* most loads started on one page
MaxDrag   == 2      \* deepest nesting of drag events and most pending timeouts
MaxChanges == 3     \* most changes made through the GUI

Scale == 2 ^ FracBits

\* ---- program constants --------------------------------------------------
MaxIter        == 50     \* for _ in range(50)
BytesPerPoint  == 14     \* int(target_size_bytes / 14)
TolNum         == 5      \* tol = 0.05 = TolNum / TolDen
TolDen         == 100
BoundFactor    == 10     \* bbox_diag / (target ** (1/3) * 10)
Float32Size    == 4      \* itemsize of np.float32, componentType 5126
ShC0Num        == 28209  \* SH_C0 = 0.28209479177387814, kept to five
ShC0Den        == 100000 \* decimals: ShC0Num / ShC0Den
Kilo           == 1024   \* {'kb': 1024, 'mb': 1024**2, 'gb': 1024**3, 'b': 1}
NumCandidates  == 4      \* length of possiblePaths

\* ---- input alphabet -----------------------------------------------------
\* Positions the input points are drawn from (repeats allowed): two close
\* positions that differ on one axis and a far one that differs on all
\* three, with negative coordinates.
Palette == { <<3, 0, 1>>, <<2, 0, 1>>, <<-1, -1, 0>> }

NoneV == << >>
Some(v) == << v >>
IsNone(o) == o = << >>
Val(o) == o[1]

\* (target_count, target_size_bytes) as passed by the caller
TargetArgs ==
    { <<NoneV, NoneV>>, <<NoneV, Some(0)>>, <<NoneV, Some(13)>>,
      <<NoneV, Some(2 * BytesPerPoint + 1)>>, <<Some(2), Some(BytesPerPoint)>>,
      <<NoneV, Some(-5)>> }
    \cup { <<Some(c), NoneV>> : c \in (-1) .. MaxTarget }

\* A source is "indexed" (it declares red, green, blue and gives vertex i the
\* color (i, i, i)) or "white" (it declares no color property).
ColorSchemes == { "indexed", "white" }
ColorOf(i) == << i, i, i >>

\* ---- float values -------------------------------------------------------
Fin(v) == [k |-> "fin", v |-> v]
Inf    == [k |-> "inf", v |-> 0]
NaN    == [k |-> "nan", v |-> 0]
Cplx   == [k |-> "cplx", v |-> 0]

IsFin(a) == a.k = "fin"

\* a <= b on floats: false whenever a nan is involved
FLeq(a, b) ==
    CASE a.k = "fin" /\ b.k = "fin" -> a.v <= b.v
      [] a.k = "fin" /\ b.k = "inf" -> TRUE
      [] a.k = "inf" /\ b.k = "inf" -> TRUE
      [] OTHER -> FALSE

\* (a + b) / 2
FMid(a, b) ==
    CASE a.k = "cplx" \/ b.k = "cplx" -> Cplx
      [] a.k = "nan" \/ b.k = "nan" -> NaN
      [] a.k = "inf" \/ b.k = "inf" -> Inf
      [] OTHER -> Fin((a.v + b.v) \div 2)

RECURSIVE RootSearch(_, _, _, _)
\* largest r in lo..hi with r^e <= n   (lo^e <= n assumed)
RootSearch(n, e, lo, hi) ==
    IF lo >= hi THEN lo
    ELSE LET m == (lo + hi + 1) \div 2
         IN  IF m ^ e <= n THEN RootSearch(n, e, m, hi)
             ELSE RootSearch(n, e, lo, m - 1)

ISqrt(n) == RootSearch(n, 2, 0, 2048)
ICbrt(n) == RootSearch(n, 3, 0, 512)

\* ---- helpers on sequences -----------------------------------------------
Idx(s) == 1 .. Len(s)
Abs(x) == IF x < 0 THEN -x ELSE x
SetMin(S) == CHOOSE x \in S : \A y \in S : x <= y
SetMax(S) == CHOOSE x \in S : \A y \in S : x >= y

RECURSIVE SeqsUpTo(_, _)
SeqsUpTo(S, n) ==
    IF n = 0 THEN { << >> }
    ELSE LET R == SeqsUpTo(S, n - 1)
         IN  R \cup { Append(s, x) : s \in { r \in R : Len(r) = n - 1 }, x \in S }

\* ---- float -> int64 conversion of a non-finite value --------------------
\* astype(np.int64) of nan or +-inf is undefined in C; the value depends on
\* the build.  BigInt stands for 2^63 (x86 yields -2^63 for all three; ARM
\* saturates and maps nan to 0).
BigInt == 2 ^ 20
CastOutcomes ==
    { [nan |-> -BigInt, pinf |-> -BigInt, ninf |-> -BigInt],
      [nan |-> 0,       pinf |-> BigInt - 1, ninf |-> -BigInt] }

\* int64 arithmetic wraps around: the value of x in [-BigInt, BigInt)
Wrap(x) == ((x + BigInt) % (2 * BigInt)) - BigInt

\* np.floor(x / v).astype(np.int64) for one coordinate x
GridCoord(x, v, cast) ==
    CASE v.k = "inf" -> 0
      [] v.k = "nan" -> cast.nan
      [] v.k = "fin" /\ v.v = 0 ->
            IF x = 0 THEN cast.nan ELSE IF x > 0 THEN cast.pinf ELSE cast.ninf
      [] OTHER -> (x * Scale) \div v.v

GridIndex(p, v, cast) ==
    << GridCoord(p[1], v, cast), GridCoord(p[2], v, cast), GridCoord(p[3], v, cast) >>

\* len(np.unique(np.floor(points / vmid).astype(np.int64), axis=0))
OccupiedCount(pts, v, cast) ==
    Cardinality({ GridIndex(pts[i], v, cast) : i \in Idx(pts) })

\* np.linalg.norm(points.max(0) - points.min(0)), points non-empty
BBoxDiag(pts) ==
    LET ext(a) == SetMax({ pts[i][a] : i \in Idx(pts) })
                  - SetMin({ pts[i][a] : i \in Idx(pts) })
    IN  Fin(ISqrt(Scale * Scale * (ext(1) * ext(1) + ext(2) * ext(2) + ext(3) * ext(3))))

\* bbox_diag / (target ** (1/3) * 10)
LowerBound(diag, target) ==
    IF target < 0 THEN Cplx                       \* negative ** (1/3) is complex
    ELSE IF target = 0
         THEN (IF diag.v = 0 THEN NaN ELSE Inf)   \* numpy scalar / 0.0
         ELSE Fin((diag.v * Scale) \div (ICbrt(target * Scale * Scale * Scale) * BoundFactor))

\* bbox_diag / 2
UpperBound(diag) == Fin(diag.v \div 2)

\* abs(count - target) / target <= tol   (target > 0)
WithinTolerance(count, target) == TolDen * Abs(count - target) <= TolNum * target

\* int(target_size_bytes / 14)
CountFromBytes(bytes) ==
    IF bytes >= 0 THEN bytes \div BytesPerPoint ELSE -((-bytes) \div BytesPerPoint)

\* slip: > instead of >=
NoDownsamplingNeeded_strict(target, n) == target > n
\* if target_count >= len(points): return points, colors
NoDownsamplingNeeded(target, n) == target >= n

\* ---- state --------------------------------------------------------------
VARIABLES
    pc,                 \* position in main(), parsePLY or the handler
    ply,                \* the input file
    size,               \* option --size: NoneV or Some(string)
    points, colors,     \* the PointSet handed to downsample_to_target
    target_count,       \* argument target_count (NoneV or Some(int))
    target_size_bytes,  \* argument target_size_bytes
    target,             \* target_count after line 113
    vmin, vmax, vmid,   \* find_voxel_size_for_target locals
    vmin0, vmax0,       \* the interval computed at line 91
    iter,               \* completed iterations of the range(50) loop
    count,              \* occupied-voxel count of the last midpoint
    best_dist,          \* Some(least |count - target| seen so far)
    via_tol,            \* calibration returned at line 97
    voxel_size,         \* value returned by find_voxel_size_for_target
    div_by_zero,        \* a float division with divisor 0.0 has been executed
    voxel_keys,         \* downsample_voxel_grid_nearest: voxel_keys
    sorted_indices,     \* np.argsort(voxel_keys), 1-based
    selected_indices,   \* one input index per occupied voxel, 1-based
    out_points, out_colors,  \* the PointSet returned by downsample_to_target
    tmp_exists,         \* the NamedTemporaryFile(delete=False) is on disk
    output_exists,      \* the transcoder has written the output file
    glb,                \* the document _create_glb saved to the temporary file
    err,                \* exception that left main(): [type, where]
    viewer,             \* what parsePLY made of the file
    filter_spec,        \* the FilterSpec of the region filter
    radius,             \* its radius_fraction, in units of 1/RadiusDen
    req, dirs,          \* the handler's request and the candidate paths
    res,                \* the handler's response
    pointCloud,         \* main.js: NoneV or Some(the THREE.Points shown)
    currentMaterial,    \* NoneV or Some(material)
    currentAnimation,
    scene_children,     \* ids of the point clouds among scene.children
    originalPositions, originalColors, originalPointCount,
    params,             \* the params object of the GUI
    dropzone,           \* dropzone.classList
    camera,             \* where the camera stands
    cameraUpdateTimeout,  \* the debounce timeout of lines 28-30 is pending
    filteredIndices,    \* filterPointsUniformly: filteredIndices of the last call
    fileSize, currentCustomFileName,
    url,                \* search parameters of window.location
    dragCounter,
    leaveTimeouts,      \* pending timeouts of handleDragLeave
    dropEffect,         \* e.dataTransfer.dropEffect of the drag
    loads,              \* the loads started, each with the step it waits for
    gui_changes         \* number of changes made through the GUI

calib_vars == << vmin, vmax, vmid, vmin0, vmax0, iter, count, best_dist, via_tol,
                voxel_size >>
input_vars == << points, colors, target_count, target_size_bytes >>
voxel_vars == << voxel_keys, sorted_indices, selected_indices >>
out_vars   == << out_points, out_colors >>
file_vars  == << tmp_exists, output_exists >>
\* what the pipeline after the reader never writes
page_vars  == << pointCloud, currentMaterial, currentAnimation, scene_children,
                originalPositions, originalColors, originalPointCount, params,
                dropzone, camera, cameraUpdateTimeout, filteredIndices >>
drag_vars  == << dragCounter, leaveTimeouts, dropEffect >>
view_vars  == << page_vars, fileSize, currentCustomFileName, url, drag_vars, loads,
                gui_changes >>
conv_env   == << ply, size, viewer, filter_spec, radius, req, dirs, res >>
env_vars   == << conv_env, view_vars >>
\* what the pipeline works on after its arguments are in place
work_vars  == << target, calib_vars, div_by_zero, voxel_vars, out_vars, file_vars,
                glb >>
vars == << pc, input_vars, work_vars, err, env_vars >>
\* what the viewer's handlers never write
tool_vars == << pc, input_vars, work_vars, err, conv_env >>

\* ---- downsample_voxel_grid_nearest --------------------------------------
\* grid_indices = np.floor(points / voxel_size).astype(np.int64)
GridIndices(pts, v, cast) == [ i \in Idx(pts) |-> GridIndex(pts[i], v, cast) ]

\* offset = grid_indices.min(axis=0); grid_indices -= offset
ShiftedIndices(grid) ==
    LET off(a) == SetMin({ grid[i][a] : i \in DOMAIN grid })
    IN  [ i \in DOMAIN grid |->
            << Wrap(grid[i][1] - off(1)), Wrap(grid[i][2] - off(2)),
               Wrap(grid[i][3] - off(3)) >> ]

\* slip: the largest index taken for the number of cells (the + 1 dropped)
MaxIdx_largest_index(shifted) ==
    [ a \in 1 .. 3 |-> SetMax({ shifted[i][a] : i \in DOMAIN shifted }) ]

\* max_idx = grid_indices.max(axis=0) + 1
MaxIdx(shifted) ==
    [ a \in 1 .. 3 |-> Wrap(SetMax({ shifted[i][a] : i \in DOMAIN shifted }) + 1) ]

\* ix * (my * mz) + iy * mz + iz, every product and sum in int64
LinearKey(g, max_idx) ==
    Wrap(Wrap(Wrap(g[1] * Wrap(max_idx[2] * max_idx[3])) + Wrap(g[2] * max_idx[3]))
         + g[3])

VoxelKeys(pts, v, cast) ==
    LET shifted == ShiftedIndices(GridIndices(pts, v, cast))
        max_idx == MaxIdx(shifted)
    IN  [ i \in Idx(pts) |-> LinearKey(shifted[i], max_idx) ]

Perms(n) == { f \in [1 .. n -> 1 .. n] : \A i, j \in 1 .. n : f[i] = f[j] => i = j }

\* slip: descending sort
KeyOrder_descending(a, b) == a >= b
\* the order np.argsort puts two entries in
KeyOrder(a, b) == a <= b

\* np.argsort(voxel_keys): the default kind is quicksort, which is not
\* stable, so entries with equal keys come out in any order.
ArgsortOutcomes(keys) ==
    { f \in Perms(Len(keys)) :
        \A i \in 1 .. Len(keys) - 1 : KeyOrder(keys[f[i]], keys[f[i + 1]]) }

\* np.unique(sorted_keys, return_index=True): group_starts, ascending keys
GroupStarts(keys, order) ==
    LET n == Len(keys)
        starts == { i \in 1 .. n : i = 1 \/ keys[order[i]] # keys[order[i - 1]] }
        nth[j \in 1 .. Cardinality(starts)] ==
            IF j = 1 THEN SetMin(starts)
            ELSE SetMin({ i \in starts : i > nth[j - 1] })
    IN  [ j \in 1 .. Cardinality(starts) |-> nth[j] ]

\* group_ends = np.append(group_starts[1:], len(sorted_keys)), exclusive
GroupEnd(starts, j, n) == IF j < Len(starts) THEN starts[j + 1] ELSE n + 1

RECURSIVE SumAxis(_, _, _)
SumAxis(pts, idxs, a) ==
    IF idxs = << >> THEN 0 ELSE pts[Head(idxs)][a] + SumAxis(pts, Tail(idxs), a)

\* |p - centroid|^2 scaled by (group size)^2, which orders the members as
\* np.linalg.norm(group_points - centroid, axis=1) does
Dist2ToCentroid(pts, group, i) ==
    LET n == Len(group)
        d(a) == n * pts[i][a] - SumAxis(pts, group, a)
    IN  d(1) * d(1) + d(2) * d(2) + d(3) * d(3)

\* group_point_indices[np.argmin(distances)]: first minimum in group order
NearestToCentroid(pts, group) ==
    LET k == SetMin({ k1 \in Idx(group) :
                 \A k2 \in Idx(group) :
                    Dist2ToCentroid(pts, group, group[k1])
                       <= Dist2ToCentroid(pts, group, group[k2]) })
    IN  group[k]

\* the loop of lines 78-83
SelectedIndices(pts, keys, order) ==
    LET starts == GroupStarts(keys, order)
    IN  [ j \in 1 .. Len(starts) |->
            NearestToCentroid(pts,
                SubSeq(order, starts[j], GroupEnd(starts, j, Len(keys)) - 1)) ]

\* points[selected_indices]
TakePoints(pts, pts_colors, sel) == [ j \in Idx(sel) |-> pts[sel[j]] ]
\* slip: colors[:len(selected_indices)], the colors of the first points
TakeColors_leading(pts, pts_colors, sel) == [ j \in Idx(sel) |-> pts_colors[j] ]
\* colors[selected_indices]
TakeColors(pts, pts_colors, sel) == [ j \in Idx(sel) |-> pts_colors[sel[j]] ]

\* ---- characters and strings ---------------------------------------------
\* A string is the sequence of its characters.
LowerCase(c) ==
    CASE c = "A" -> "a" [] c = "B" -> "b" [] c = "G" -> "g" [] c = "K" -> "k"
      [] c = "L" -> "l" [] c = "M" -> "m" [] OTHER -> c
\* s.lower(), file.toLowerCase()
ToLower(s) == [ i \in Idx(s) |-> LowerCase(s[i]) ]
\* s.endswith(suf), file.endsWith(suf)
EndsWith(s, suf) ==
    /\ Len(s) >= Len(suf)
    /\ SubSeq(s, Len(s) - Len(suf) + 1, Len(s)) = suf
\* s[:-len(suf)]
DropSuffix(s, suf) == SubSeq(s, 1, Len(s) - Len(suf))

Digits == { "0", "1", "2", "3", "4", "5", "6", "7", "8", "9" }
DigitVal(c) ==
    CASE c = "0" -> 0 [] c = "1" -> 1 [] c = "2" -> 2 [] c = "3" -> 3 [] c = "4" -> 4
      [] c = "5" -> 5 [] c = "6" -> 6 [] c = "7" -> 7 [] c = "8" -> 8 [] c = "9" -> 9
AllDigits(t) == \A i \in Idx(t) : t[i] \in Digits

RECURSIVE DigitsValue(_)
DigitsValue(t) ==
    IF t = << >> THEN 0
    ELSE 10 * DigitsValue(SubSeq(t, 1, Len(t) - 1)) + DigitVal(t[Len(t)])

\* a leading minus sign, split off
Negative(t) == t # << >> /\ Head(t) = "-"
Unsigned(t) == IF Negative(t) THEN Tail(t) ELSE t
Signed(t, n) == IF Negative(t) THEN -n ELSE n

\* int(s) on the characters above: Some(value), or NoneV for ValueError
IntOf(t) ==
    LET u == Unsigned(t)
    IN  IF u # << >> /\ AllDigits(u) THEN Some(Signed(t, DigitsValue(u))) ELSE NoneV

\* float(s) on the characters above: Some(<<numerator, denominator>>), or
\* NoneV for ValueError
FloatOf(t) ==
    LET u == Unsigned(t)
        dots == { i \in Idx(u) : u[i] = "." }
    IN  IF dots = {}
        THEN IF u # << >> /\ AllDigits(u)
             THEN Some(<< Signed(t, DigitsValue(u)), 1 >>) ELSE NoneV
        ELSE IF Cardinality(dots) = 1
        THEN LET d == CHOOSE i \in dots : TRUE
                 whole == SubSeq(u, 1, d - 1)
                 frac == SubSeq(u, d + 1, Len(u))
             IN  IF AllDigits(whole) /\ AllDigits(frac) /\ Len(whole) + Len(frac) > 0
                 THEN Some(<< Signed(t, DigitsValue(whole \o frac)), 10 ^ Len(frac) >>)
                 ELSE NoneV
        ELSE NoneV

\* int(x) of the rational num / den, den > 0: truncation toward zero
TruncDiv(num, den) == IF num >= 0 THEN num \div den ELSE -((-num) \div den)

\* ---- cli.py: parse_size, lines 222-226 ----------------------------------
\* the dict of line 224 in its iteration order
Suffixes == << << "k", "b" >>, << "m", "b" >>, << "g", "b" >>, << "b" >> >>
Multipliers == << Kilo, Kilo ^ 2, Kilo ^ 3, 1 >>

\* Some(bytes), or NoneV when int() or float() raises ValueError
ParseSize(s) ==
    LET low == ToLower(s)
        hits == { j \in Idx(Suffixes) : EndsWith(low, Suffixes[j]) }
    IN  IF hits # {}
        THEN LET j == SetMin(hits)
                 f == FloatOf(DropSuffix(low, Suffixes[j]))
             IN  IF IsNone(f) THEN NoneV
                 ELSE Some(TruncDiv(Val(f)[1] * Multipliers[j], Val(f)[2]))
        ELSE IntOf(low)

\* values of --size: a number followed by a unit
SizeNumbers ==
    { << >>, << "0" >>, << "1" >>, << "5" >>, << "1", "0" >>, << "5", "0", "0" >>,
      << "1", ".", "5" >>, << "-", "5" >> }
SizeUnits ==
    { << >>, << "b" >>, << "B" >>, << "k" >>, << "k", "b" >>, << "K", "B" >>,
      << "K", "b" >>, << "m", "b" >>, << "M", "B" >>, << "g", "b" >>, << "G", "B" >> }
\* numbers whose product with 1024**3 stays below 2^31
FitsGiga == { << >>, << "0" >>, << "1" >> }
SizeArgs ==
    { n \o u : n \in SizeNumbers,
               u \in { v \in SizeUnits : ToLower(v) # Suffixes[3] } }
    \cup { n \o u : n \in FitsGiga, u \in { v \in SizeUnits : ToLower(v) = Suffixes[3] } }

\* ---- the vertex file ----------------------------------------------------
\* A file has an extension, the properties <<type, name>> its header declares
\* for the vertex element, in column order, and one row of numbers per
\* vertex.  An f_dc value is held in units of 1/DcDen.
PlyFile(ext, props, rows) == [ext |-> ext, props |-> props, rows |-> rows]
NoFile == PlyFile("", << >>, << >>)

XYZ == << << "float", "x" >>, << "float", "y" >>, << "float", "z" >> >>
RGB == << << "uchar", "red" >>, << "uchar", "green" >>, << "uchar", "blue" >> >>
DC  == << << "float", "f_dc_0" >>, << "float", "f_dc_1" >>, << "float", "f_dc_2" >> >>

\* the file the pipeline starts from: positions pts, colors by scheme
PipelineFile(pts, scheme) ==
    IF scheme = "indexed"
    THEN PlyFile(".ply", XYZ \o RGB, [ i \in Idx(pts) |-> pts[i] \o ColorOf(i) ])
    ELSE PlyFile(".ply", XYZ, pts)

\* ---- reader.py, lines 133-159 -------------------------------------------
White == << 255, 255, 255 >>

\* 'red' in v
HasProp(f, name) == \E c \in Idx(f.props) : f.props[c][2] = name
\* v['x']: the column of the property of that name
Column(f, name) ==
    LET c == CHOOSE c \in Idx(f.props) : f.props[c][2] = name
    IN  [ r \in Idx(f.rows) |-> f.rows[r][c] ]
\* np.column_stack([a, b, c])
ColumnStack(a, b, c) == [ r \in Idx(a) |-> << a[r], b[r], c[r] >> ]

\* slip: np.full((1, 3), 255, np.uint8)
DefaultColors_one_row(pts) == << White >>
\* np.full((len(points), 3), 255, np.uint8)
DefaultColors(pts) == [ i \in Idx(pts) |-> White ]

\* np.clip((0.5 + SH_C0 * f) * 255, 0, 255) followed by astype(np.uint8), for
\* f = k / DcDen: the clipped value num / den, truncated
ShNum(k) == 255 * (ShC0Den * DcDen + 2 * ShC0Num * k)
ShDen == 2 * ShC0Den * DcDen
ShToByte(k) ==
    IF ShNum(k) <= 0 THEN 0
    ELSE IF ShNum(k) >= 255 * ShDen THEN 255
    ELSE ShNum(k) \div ShDen

ReadPly(f) ==
    LET pts == ColumnStack(Column(f, "x"), Column(f, "y"), Column(f, "z"))
    IN  << pts,
           IF HasProp(f, "red")
           THEN ColumnStack(Column(f, "red"), Column(f, "green"), Column(f, "blue"))
           ELSE DefaultColors(pts) >>

ReadSog(f) ==
    LET pts == ColumnStack(Column(f, "x"), Column(f, "y"), Column(f, "z"))
        dc(name) == [ r \in Idx(f.rows) |-> ShToByte(Column(f, name)[r]) ]
    IN  << pts,
           IF HasProp(f, "f_dc_0")
           THEN ColumnStack(dc("f_dc_0"), dc("f_dc_1"), dc("f_dc_2"))
           ELSE DefaultColors(pts) >>

\* ---- main.js: parsePLY, lines 608-696 -----------------------------------
\* A line of the text is the sequence of its space-separated words.
Numeral(n) == << "0", "1", "2", "3", "4", "5", "6", "7", "8", "9" >>[n + 1]
\* parseInt(word)
ParseInt(w) == DigitVal(w)

\* the header of file f as the text the viewer is given
HeaderLines(f) ==
    << << "ply" >>, << "format", "ascii", "1.0" >>,
       << "element", "vertex", Numeral(Len(f.rows)) >> >>
    \o [ c \in Idx(f.props) |-> << "property", f.props[c][1], f.props[c][2] >> ]
    \o << << "end_header" >> >>

\* line.includes(word): no word of a header contains "red", "green" or
\* "blue" without being it
Includes(line, word) == \E i \in Idx(line) : line[i] = word

\* the loop of lines 615-627 from line i on: the locals when it ends
RECURSIVE ScanHeader(_, _, _)
ScanHeader(lines, i, st) ==
    IF i > Len(lines) THEN st
    ELSE LET line == lines[i] IN
         IF Len(line) >= 2 /\ line[1] = "element" /\ line[2] = "vertex"
         THEN ScanHeader(lines, i + 1, [st EXCEPT !.vertexCount = ParseInt(line[3])])
         ELSE IF Includes(line, "red") \/ Includes(line, "green") \/ Includes(line, "blue")
         THEN ScanHeader(lines, i + 1, [st EXCEPT !.hasColors = TRUE])
         ELSE IF line[1] = "property"
         THEN ScanHeader(lines, i + 1,
                         [st EXCEPT !.properties = Append(@, line[2])])
         ELSE IF line = << "end_header" >>
         THEN [st EXCEPT !.headerEnd = i - 1]
         ELSE ScanHeader(lines, i + 1, st)

\* properties.indexOf(name): 0-based, -1 when absent
IndexOf(s, name) ==
    IF \E i \in Idx(s) : s[i] = name
    THEN SetMin({ i \in Idx(s) : s[i] = name }) - 1
    ELSE -1

\* values[idx]: undefined, stored as NaN, outside the row
At(values, idx) == IF idx + 1 \in DOMAIN values THEN Fin(values[idx + 1]) ELSE NaN

\* storing a number into a Uint8Array: NaN becomes 0, a finite number is
\* truncated and wrapped
ToUint8(a) == IF IsFin(a) THEN a.v % 256 ELSE 0
\* Math.max(0, Math.min(255, (0.5 + SH_C0 * r) * 255)) stored into the array
ShToUint8(a) == IF IsFin(a) THEN ShToByte(a.v) ELSE 0

NoViewer == [alerted |-> FALSE, positions |-> << >>, colors |-> NoneV]

\* the point cloud parsePLY hands to createPointCloud, or the alert
ParsePlyText(f) ==
    LET st == ScanHeader(HeaderLines(f), 1,
                         [vertexCount |-> 0, hasColors |-> FALSE,
                          properties |-> << >>, headerEnd |-> -1])
        props == st.properties
        xIdx == IndexOf(props, "x")
        yIdx == IndexOf(props, "y")
        zIdx == IndexOf(props, "z")
        sog == Includes(props, "f_dc_0")
        direct == IF st.hasColors THEN IndexOf(props, "red") ELSE -1
        rIdx == IF direct = -1 /\ sog THEN IndexOf(props, "f_dc_0")
                ELSE direct
        gIdx == IF direct = -1 /\ sog THEN IndexOf(props, "f_dc_1")
                ELSE IF st.hasColors THEN IndexOf(props, "green") ELSE -1
        bIdx == IF direct = -1 /\ sog THEN IndexOf(props, "f_dc_2")
                ELSE IF st.hasColors THEN IndexOf(props, "blue") ELSE -1
        byte(a) == IF sog THEN ShToUint8(a) ELSE ToUint8(a)
        n == st.vertexCount
    IN  IF st.headerEnd = -1 \/ n = 0
        THEN [NoViewer EXCEPT !.alerted = TRUE]
        ELSE [alerted |-> FALSE,
              positions |->
                 [ r \in 1 .. n |->
                     IF r \in DOMAIN f.rows /\ xIdx >= 0 /\ yIdx >= 0 /\ zIdx >= 0
                     THEN << At(f.rows[r], xIdx), At(f.rows[r], yIdx),
                             At(f.rows[r], zIdx) >>
                     ELSE << Fin(0), Fin(0), Fin(0) >> ],
              colors |->
                 IF st.hasColors
                 THEN Some([ r \in 1 .. n |->
                               IF r \in DOMAIN f.rows /\ rIdx >= 0 /\ gIdx >= 0
                                  /\ bIdx >= 0
                               THEN << byte(At(f.rows[r], rIdx)),
                                       byte(At(f.rows[r], gIdx)),
                                       byte(At(f.rows[r], bIdx)) >>
                               ELSE << 0, 0, 0 >> ])
                 ELSE NoneV]

\* files given to the two readers: the value in row r of the column of
\* property c (1 = x .. 6 = blue) tells both apart
CellValue(r, c) == 10 * r + c
RowsOf(n, order) == [ r \in 1 .. n |-> [ j \in 1 .. 6 |-> CellValue(r, order[j]) ] ]
DirectColorFiles ==
    { PlyFile(".ply", [ j \in 1 .. 6 |-> (XYZ \o RGB)[order[j]] ], RowsOf(n, order)) :
        order \in Perms(6), n \in 0 .. MaxRows }
DcValues == (-MaxDc) .. MaxDc
HarmonicsFiles ==
    { PlyFile(ext, XYZ \o DC, << << 1, 2, 3, k0, k1, 0 >> >>) :
        ext \in { ".ply", ".sog" }, k0 \in DcValues, k1 \in { -MaxDc, -1, 0, 1, MaxDc } }
PlainFiles ==
    { PlyFile(ext, XYZ, [ r \in 1 .. n |-> << r, r + 1, r + 2 >> ]) :
        ext \in { ".ply", ".sog", ".xyz" }, n \in 0 .. MaxRows }
ReaderFiles == DirectColorFiles \cup HarmonicsFiles \cup PlainFiles

\* ---- exporter.py: _create_glb, lines 187-209 ----------------------------
\* len(a.tobytes()) of an (n, 3) array of the given item size
ByteLength(n, itemsize) == n * 3 * itemsize
\* points is float32 (reader.py lines 136 and 143)
PosBytes(pts) == ByteLength(Len(pts), Float32Size)
\* slip: the uint8 colors written without the conversion of line 189
ColBytes_uint8(cols) == ByteLength(Len(cols), 1)
\* colors_f = colors.astype(np.float32) / 255.0
ColBytes(cols) == ByteLength(Len(cols), Float32Size)

AxisValues(pts, a) == { pts[i][a] : i \in Idx(pts) }
NoGlb == [attributes |-> << >>, accessors |-> << >>, bufferViews |-> << >>,
          buffers |-> << >>, blob |-> 0]
\* the document and the length of its binary blob; accessors and buffer
\* views are numbered from 0 as in the file
GlbOf(pts, cols) ==
    [attributes |-> [POSITION |-> 0, COLOR_0 |-> 1],
     accessors |->
        << [bufferView |-> 0, count |-> Len(pts),
            max |-> [ a \in 1 .. 3 |-> SetMax(AxisValues(pts, a)) ],
            min |-> [ a \in 1 .. 3 |-> SetMin(AxisValues(pts, a)) ]],
           [bufferView |-> 1, count |-> Len(pts)] >>,
     bufferViews |->
        << [byteOffset |-> 0, byteLength |-> PosBytes(pts)],
           [byteOffset |-> PosBytes(pts), byteLength |-> ColBytes(cols)] >>,
     buffers |-> << [byteLength |-> PosBytes(pts) + ColBytes(cols)] >>,
     blob |-> PosBytes(pts) + ColBytes(cols)]

\* ---- region filter (Region Filter section of the specification) ---------
\* Coordinates are compared after scaling by n = len(points), so that the
\* centroid is integral; squared distances replace distances.
Shapes == { "sphere", "hemisphere" }
Origin == << 0, 0, 0 >>
FilterPalette == { << 0, 0, 0 >>, << 1, 0, 0 >>, << 0, 2, 1 >>, << -1, -2, -1 >> }
Centers ==
    { [kind |-> "origin", at |-> Origin], [kind |-> "centroid", at |-> Origin],
      [kind |-> "explicit", at |-> << 1, 0, 0 >>],
      [kind |-> "explicit", at |-> << 0, 1, 1 >>] }
NoFilter == [shape |-> "", center |-> [kind |-> "", at |-> Origin], up |-> 0]

\* diagonal^2 of the axis-aligned bounding box
Diagonal2(pts) ==
    LET ext(a) == SetMax(AxisValues(pts, a)) - SetMin(AxisValues(pts, a))
    IN  ext(1) * ext(1) + ext(2) * ext(2) + ext(3) * ext(3)

AllIndices(pts) == [ i \in Idx(pts) |-> i ]
\* n * center
ScaledCenter(pts, center) ==
    IF center.kind = "centroid"
    THEN [ a \in 1 .. 3 |-> SumAxis(pts, AllIndices(pts), a) ]
    ELSE [ a \in 1 .. 3 |-> Len(pts) * center.at[a] ]
\* n * (p - center)
Offset(pts, center, i) ==
    [ a \in 1 .. 3 |-> Len(pts) * pts[i][a] - ScaledCenter(pts, center)[a] ]
Norm2(v) == v[1] * v[1] + v[2] * v[2] + v[3] * v[3]

\* slip: the points outside the sphere
InsideSphere_outside(dist2, radius2) == dist2 >= radius2
\* slip: the open ball
InsideSphere_open(dist2, radius2) == dist2 < radius2
\* |p - center| <= radius
InsideSphere(dist2, radius2) == dist2 <= radius2

\* (p - center) . up >= 0
InUpperHalf(v, up) == v[up] >= 0

\* point i survives filter fs with radius_fraction k / RadiusDen
Survives(pts, fs, k, i) ==
    LET v == Offset(pts, fs.center, i)
    IN  /\ InsideSphere(RadiusDen * RadiusDen * Norm2(v),
                        k * k * Len(pts) * Len(pts) * Diagonal2(pts))
        /\ fs.shape = "hemisphere" => InUpperHalf(v, fs.up)

RECURSIVE Ascending(_)
Ascending(S) ==
    IF S = {} THEN << >> ELSE << SetMin(S) >> \o Ascending(S \ { SetMin(S) })
\* the indices of the surviving points, in input order
Survivors(pts, fs, k) == Ascending({ i \in Idx(pts) : Survives(pts, fs, k, i) })

\* ---- api/models.js, lines 4-58 ------------------------------------------
\* UTF-16 code unit of a character of a file name
CodeUnit(c) ==
    CASE c = "." -> 46 [] c = "A" -> 65 [] c = "B" -> 66 [] c = "G" -> 71
      [] c = "L" -> 76 [] c = "a" -> 97 [] c = "b" -> 98 [] c = "c" -> 99
      [] c = "g" -> 103 [] c = "l" -> 108 [] c = "t" -> 116 [] c = "x" -> 120

\* a < b as the default comparison of Array.prototype.sort orders strings
RECURSIVE StrLess(_, _)
StrLess(a, b) ==
    IF b = << >> THEN FALSE
    ELSE IF a = << >> THEN TRUE
    ELSE IF Head(a) # Head(b) THEN CodeUnit(Head(a)) < CodeUnit(Head(b))
    ELSE StrLess(Tail(a), Tail(b))

\* files.sort()
RECURSIVE SortStrings(_)
SortStrings(S) ==
    IF S = {} THEN << >>
    ELSE LET m == CHOOSE x \in S : \A y \in S \ { x } : StrLess(x, y)
         IN  << m >> \o SortStrings(S \ { m })

GlbSuffix == << ".", "g", "l", "b" >>
\* slip: file.endsWith('.glb')
IsGlbFile_case_sensitive(file) == EndsWith(file, GlbSuffix)
\* file.toLowerCase().endsWith('.glb')
IsGlbFile(file) == EndsWith(ToLower(file), GlbSuffix)

\* files.filter(...).sort()
GlbFiles(files) == SortStrings({ files[i] : i \in { j \in Idx(files) : IsGlbFile(files[j]) } })

FileNames ==
    { << "a", ".", "g", "l", "b" >>, << "B", ".", "G", "L", "B" >>,
      << "c", ".", "G", "l", "b" >>, << "b", ".", "t", "x", "t" >>,
      << "g", "l", "b" >>, << "a", "b", ".", "g", "l", "b" >> }
\* what readdirSync may return: distinct names in any order
Listings ==
    { s \in SeqsUpTo(FileNames, MaxEntries) : \A i, j \in Idx(s) : s[i] = s[j] => i = j }
\* the content of every candidate directory after the first existing one
OtherListing == << << "c", ".", "G", "l", "b" >> >>
Methods == { "GET", "POST", "OPTIONS" }
\* a candidate path is missing, is a readable directory, or exists and
\* makes readdirSync throw
PathStates == { "missing", "dir", "unreadable" }

\* the loop of lines 27-32: Some(index of the first existing path)
FirstExisting(d) ==
    IF \E i \in Idx(d) : d[i].state # "missing"
    THEN Some(SetMin({ i \in Idx(d) : d[i].state # "missing" }))
    ELSE NoneV

CorsHeaders ==
    { << "Access-Control-Allow-Origin", "*" >>,
      << "Access-Control-Allow-Methods", "GET, OPTIONS" >>,
      << "Content-Type", "application/json" >> }
NoRequest == [method |-> ""]
NoResponse == [status |-> 0, headers |-> {}, body |-> NoneV]

\* ---- viewer (main.js): files, materials, GUI parameters, page URL -------
\* a file offered to the viewer: its name, the extension computed by
\* name.toLowerCase().split('.').pop(), whether the GLB holds a Points object,
\* the decoded position and color attributes and the byte size
SceneFile(name, ext, isPoints, position, hasColors, bytes) ==
    [name |-> name, ext |-> ext, isPoints |-> isPoints, position |-> position,
     hasColors |-> hasColors, bytes |-> bytes]
FilePoints == SceneFile("points.glb", "glb", TRUE,
                        << <<0, 0, 0>>, <<2, 0, 0>>, <<2, 2, 2>> >>, TRUE, 42)
FileMesh   == SceneFile("mesh.glb", "glb", FALSE,
                        << <<0, 0, 0>>, <<0, 1, 1>> >>, FALSE, 28)
FileDot    == SceneFile("dot.ply", "ply", FALSE, << <<1, 1, 1>> >>, TRUE, 14)
FileText   == SceneFile("notes.txt", "txt", FALSE, << >>, FALSE, 5)
\* the list loadModelsList received from /api/models
defaultScenes == << "points.glb", "mesh.glb" >>
DefaultSceneFiles == { FilePoints, FileMesh }
CustomFiles == { FileDot, FileMesh, FileText }
FileNamed(name) == CHOOSE f \in DefaultSceneFiles : f.name = name

\* a THREE material: the object it belongs to, its class, and the animation
\* type its shader was built for ("" for a PointsMaterial); size, opacity
\* and color of a material are not part of the model
Material(of, type, shader) == [of |-> of, type |-> type, shader |-> shader]
HasUniforms(m) == m.type = "ShaderMaterial"

\* numbers of the GUI are kept in hundredths
\* Number.prototype.toString for a non-negative number with two decimals
RECURSIVE IntDigits(_)
IntDigits(n) == IF n < 10 THEN << Numeral(n) >> ELSE IntDigits(n \div 10) \o << Numeral(n % 10) >>
NumberToString(h) ==
    LET f == h % 100
    IN  IntDigits(h \div 100)
        \o (IF f = 0 THEN << >>
            ELSE << ".", Numeral(f \div 10) >>
                 \o (IF f % 10 = 0 THEN << >> ELSE << Numeral(f % 10) >>))
\* parseFloat of such a string
ParseFloat(s) ==
    LET dot  == IF \E i \in Idx(s) : s[i] = "." THEN CHOOSE i \in Idx(s) : s[i] = "."
                ELSE Len(s) + 1
        frac == SubSeq(s, dot + 1, Len(s))
    IN  DigitsValue(SubSeq(s, 1, dot - 1)) * 100
        + (IF Len(frac) = 0 THEN 0
           ELSE IF Len(frac) = 1 THEN 10 * DigitVal(frac[1])
           ELSE 10 * DigitVal(frac[1]) + DigitVal(frac[2]))
BoolToString(b) == IF b THEN "true" ELSE "false"

\* the params object, lines 64-133 (the fields the GUI or the URL can change)
DefaultParams ==
    [selectedScene |-> "", points |-> 0, maxPoints |-> 0, pointPercent |-> 100,
     pointSize |-> 3, opacity |-> 100, colorMode |-> "file",
     customColor |-> "#ff5500", backgroundColor |-> "#1a1a2e",
     useShaderMaterial |-> TRUE, animation |-> "none", animSpeed |-> 100,
     animAmplitude |-> 50, wavesEnabled |-> FALSE, wavesAmplitude |-> 300,
     wavesPeriod |-> 100, wavesSpeed |-> 500, wavesColor |-> "#ffffff",
     wavesColorIntensity |-> 500, wavesDisplacementAxis |-> "y",
     wavesDisplacement |-> 100]
NumberKeys == { "pointSize", "opacity", "animSpeed", "animAmplitude", "wavesAmplitude",
                "wavesPeriod", "wavesSpeed", "wavesColorIntensity", "wavesDisplacement" }
BooleanKeys == { "useShaderMaterial", "wavesEnabled" }
StringKeys == { "colorMode", "customColor", "backgroundColor", "animation", "wavesColor",
                "wavesDisplacementAxis" }
SerializedKeys == NumberKeys \cup BooleanKeys \cup StringKeys

\* the value serializeParamsToURL writes for one key, lines 2501-2521
ParamString(p, key) ==
    IF key \in NumberKeys THEN NumberToString(p[key])
    ELSE IF key \in BooleanKeys THEN BoolToString(p[key])
    ELSE p[key]
\* the value deserializeParamsFromURL reads back, lines 2571-2642
ParamValue(key, str) ==
    IF key \in NumberKeys THEN ParseFloat(str)
    ELSE IF key \in BooleanKeys THEN str = "true"
    ELSE str
\* deserializeParamsFromURL on a params object p
DeserializeParams(u, p) ==
    [ key \in DOMAIN p |->
        IF key = "selectedScene"
        THEN IF "model" \in DOMAIN u THEN u["model"] ELSE p[key]
        ELSE IF key \in SerializedKeys /\ key \in DOMAIN u
        THEN ParamValue(key, u[key])
        ELSE p[key] ]

\* the page URL before any parameter was written
EmptyURL == [ key \in {} |-> "" ]
\* updateURLParameter(name, value), lines 2478-2486
UpdateURLParameter(u, name, value) ==
    IF value # ""
    THEN [ key \in DOMAIN u \cup { name } |-> IF key = name THEN value ELSE u[key] ]
    ELSE [ key \in DOMAIN u \ { name } |-> u[key] ]

\* ---- viewer: the handlers' effect on the application state ---------------
\* a THREE.Points object: geometry attributes and material
PointsObject(id, file, material) ==
    [id |-> id, file |-> file.name, material |-> material,
     position |-> file.position, hasColors |-> file.hasColors]

Waves == "spherical_waves"

\* applyAnimation(type), lines 1561-1855: builds the material for the type
\* and swaps it into the point cloud
ApplyAnimation(w, type) ==
    IF IsNone(w.pointCloud) THEN w
    ELSE LET obj == Val(w.pointCloud)
             material ==
                 IF type = "none" /\ ~w.params.useShaderMaterial
                 THEN Material(obj.id, "PointsMaterial", "")
                 ELSE Material(obj.id, "ShaderMaterial", type)
         IN  [w EXCEPT !.scene = (w.scene \ { obj.id }) \cup { obj.id },
                       !.pointCloud = Some([obj EXCEPT !.material = material]),
                       !.currentMaterial = Some(material)]

\* applyRestoredParams(), lines 2675-2757
ApplyRestoredParams(w) ==
    IF w.params.wavesEnabled /\ w.params.animation # Waves
    THEN ApplyAnimation([w EXCEPT !.params.animation = Waves,
                                  !.currentAnimation = Waves], Waves)
    ELSE IF ~w.params.wavesEnabled /\ w.params.animation = Waves
    THEN ApplyAnimation([w EXCEPT !.params.animation = "none",
                                  !.currentAnimation = "none"], "none")
    ELSE w

\* the largest extent of the bounding box, lines 1092-1096
Extent(position, a) ==
    SetMax({ position[i][a] : i \in Idx(position) })
    - SetMin({ position[i][a] : i \in Idx(position) })
MaxDim(position) == SetMax({ Extent(position, a) : a \in 1 .. 3 })
\* line 1107 for finite coordinates
MaxValidDim == 1000000
IsValidBoundingBox(position) == MaxDim(position) > 0 /\ MaxDim(position) < MaxValidDim

\* a replacement that leaves the old object in the scene
RemoveOld_keeps(w) == w
\* scene.remove(pointCloud) of the handlers that replace the point cloud
RemoveOld(w) ==
    IF IsNone(w.pointCloud) THEN w
    ELSE [w EXCEPT !.scene = w.scene \ { Val(w.pointCloud).id }]

\* createPointCloud(positionAttr, colorAttr), lines 867-1222, for the
\* attributes of a file; id names the new THREE.Points.  The statement at
\* line 1147 assigns to the const maxDim of line 1096 and throws a TypeError.
CreatePointCloud(w, file, id, u) ==
    LET material == Material(id, "PointsMaterial", "")
        obj == PointsObject(id, file, material)
        w1 == [RemoveOld(w) EXCEPT
                 !.params.colorMode = IF file.hasColors THEN "file" ELSE @,
                 !.pointCloud = Some(obj),
                 !.scene = @ \cup { id },
                 !.currentMaterial = Some(material),
                 !.originalPointCount = Len(file.position),
                 !.originalPositions = Some(file.position),
                 !.originalColors = IF file.hasColors
                                    THEN Some([ i \in Idx(file.position) |-> ColorOf(i) ])
                                    ELSE NoneV,
                 !.params.maxPoints = Len(file.position),
                 !.params.pointPercent = 100]
    IN  IF ~IsValidBoundingBox(file.position)
        THEN [w1 EXCEPT !.threw = TRUE]
        ELSE LET w2 == [w1 EXCEPT !.camera = "framed", !.cameraUpdateTimeout = TRUE]
                 w3 == IF DOMAIN u # {} THEN ApplyRestoredParams(w2) ELSE w2
                 w4 == [ApplyAnimation(w3, w3.params.animation) EXCEPT
                          !.currentAnimation = w3.params.animation]
             IN  w4

\* the tail shared by parsePLY (lines 690-695) and the mesh branch of the
\* loadGLB callback (lines 572-577)
CreateAndShow(w, file, id, u) ==
    LET w1 == CreatePointCloud(w, file, id, u)
    IN  IF w1.threw THEN w1
        ELSE [w1 EXCEPT !.params.points = Len(file.position),
                        !.dropzone = @ \cup { "hidden" }]

\* the Points branch of the loadGLB callback, lines 353-559
UsePointsDirectly(w, file, id) ==
    LET material == Material(id, "PointsMaterial", "")
        obj == PointsObject(id, file, material)
        w1 == [RemoveOld(w) EXCEPT
                 !.pointCloud = Some(obj),
                 !.scene = @ \cup { id },
                 !.currentMaterial = Some(material),
                 !.camera = "framed", !.cameraUpdateTimeout = TRUE,
                 !.originalPointCount = Len(file.position),
                 !.originalPositions = Some(file.position),
                 !.originalColors = IF file.hasColors
                                    THEN Some([ i \in Idx(file.position) |-> ColorOf(i) ])
                                    ELSE NoneV,
                 !.params.maxPoints = Len(file.position),
                 !.params.pointPercent = 100,
                 !.params.points = Len(file.position),
                 !.dropzone = @ \cup { "hidden" }]
    IN  [ApplyAnimation(w1, w1.params.animation) EXCEPT
           !.currentAnimation = w1.params.animation]

\* serializeParamsToURL(), lines 2489-2557
SerializeParamsToURL(w, u) ==
    LET keep == IF "model" \in DOMAIN u /\ u["model"] # "" THEN { "model" } ELSE {}
    IN  [ key \in SerializedKeys \cup { "cam" } \cup keep |->
            IF key = "model" THEN u["model"]
            ELSE IF key = "cam" THEN w.camera
            ELSE ParamString(w.params, key) ]

\* ---- viewer: filterPointsUniformly and restoreAllPoints ------------------
\* Math.cbrt(volume / targetCount), lines 736-738
VoxelSizeFor(volume, targetCount) ==
    IF targetCount = 0 THEN (IF volume = 0 THEN NaN ELSE Inf)
    ELSE Fin(ICbrt((volume * Scale * Scale * Scale) \div targetCount))
\* Math.floor((x - minX) / voxelSize), lines 752-754
VoxelCell(d, vs) ==
    IF vs.k = "nan" THEN NaN
    ELSE IF vs.k = "inf" THEN Fin(0)
    ELSE IF vs.v = 0 THEN (IF d = 0 THEN NaN ELSE Inf)
    ELSE Fin((d * Scale) \div vs.v)
\* the key `${voxelX},${voxelY},${voxelZ}` of point i, line 756
VoxelKeyOf(position, targetCount, i) ==
    LET lo(a) == SetMin({ position[j][a] : j \in Idx(position) })
        volume == Extent(position, 1) * Extent(position, 2) * Extent(position, 3)
        vs == VoxelSizeFor(volume, targetCount)
    IN  [ a \in 1 .. 3 |-> VoxelCell(position[i][a] - lo(a), vs) ]
\* the index sets lines 764-803 can produce: one random member of each voxel
\* in shuffled order until targetCount is reached (the test follows the add),
\* then random other points up to targetCount
FilterOutcomes(position, targetCount) ==
    LET key(i) == VoxelKeyOf(position, targetCount, i)
        voxels == { key(i) : i \in Idx(position) }
        first == IF targetCount = 0 THEN 1
                 ELSE IF Cardinality(voxels) < targetCount THEN Cardinality(voxels)
                 ELSE targetCount
        total == IF targetCount > first THEN targetCount ELSE first
    IN  { S \in SUBSET Idx(position) :
            /\ Cardinality(S) = total
            /\ \E P \in SUBSET S :
                  /\ Cardinality(P) = first
                  /\ \A i, j \in P : key(i) = key(j) => i = j }

\* a restore that leaves the geometry as it is
RestoreAllPoints_keeps(w) == w
\* restoreAllPoints(), lines 843-864
RestoreAllPoints(w) ==
    IF IsNone(w.originalPositions) \/ IsNone(w.pointCloud) THEN w
    ELSE LET obj == Val(w.pointCloud)
             w1 == [w EXCEPT !.pointCloud =
                        Some([obj EXCEPT !.position = Val(w.originalPositions),
                                         !.hasColors = @ \/ ~IsNone(w.originalColors)])]
         IN  IF ~IsNone(w1.currentMaterial) /\ HasUniforms(Val(w1.currentMaterial))
             THEN ApplyAnimation(w1, w1.currentAnimation) ELSE w1

\* filterPointsUniformly(targetCount), lines 699-840, with the index set S
\* that the random choices produced
FilterPointsUniformly(w, targetCount, S) ==
    IF IsNone(w.originalPositions) \/ IsNone(w.pointCloud) THEN w
    ELSE IF targetCount >= w.originalPointCount THEN RestoreAllPoints(w)
    ELSE LET obj == Val(w.pointCloud)
             original == Val(w.originalPositions)
             indices == Ascending(S)
             w1 == [w EXCEPT
                      !.filteredIndices = indices,
                      !.pointCloud =
                          Some([obj EXCEPT
                                  !.position = [ i \in Idx(indices) |-> original[indices[i]] ],
                                  !.hasColors = @ \/ ~IsNone(w.originalColors)])]
         IN  IF ~IsNone(w1.currentMaterial) /\ HasUniforms(Val(w1.currentMaterial))
             THEN ApplyAnimation(w1, w1.currentAnimation) ELSE w1
\* the random choices open to a call
FilterChoices(w, targetCount) ==
    IF IsNone(w.originalPositions) \/ IsNone(w.pointCloud)
       \/ targetCount >= w.originalPointCount
    THEN { {} }
    ELSE FilterOutcomes(Val(w.originalPositions), targetCount)

NoError == [type |-> "", where |-> ""]

\* ---- initial states -----------------------------------------------------
\* nothing has been computed yet
NothingDone ==
    /\ target = NoneV
    /\ vmin = Fin(0) /\ vmax = Fin(0) /\ vmid = Fin(0)
    /\ vmin0 = Fin(0) /\ vmax0 = Fin(0)
    /\ iter = 0 /\ count = 0 /\ via_tol = FALSE /\ voxel_size = Fin(0)
    /\ best_dist = NoneV
    /\ div_by_zero = FALSE
    /\ voxel_keys = << >> /\ sorted_indices = << >> /\ selected_indices = << >>
    /\ out_points = << >> /\ out_colors = << >>
    /\ tmp_exists = FALSE /\ output_exists = FALSE
    /\ glb = NoGlb
    /\ err = NoError
    /\ viewer = NoViewer
    /\ res = NoResponse
NoPointSet == points = << >> /\ colors = << >>
NoTargets == target_count = NoneV /\ target_size_bytes = NoneV /\ size = NoneV
NoRegion == filter_spec = NoFilter /\ radius = 0
NoHttp == req = NoRequest /\ dirs = << >>

\* ---- viewer: state of the page -------------------------------------------
\* the application state the handlers read and write, as one record
World ==
    [pointCloud |-> pointCloud, currentMaterial |-> currentMaterial,
     currentAnimation |-> currentAnimation, scene |-> scene_children,
     originalPositions |-> originalPositions, originalColors |-> originalColors,
     originalPointCount |-> originalPointCount, params |-> params,
     dropzone |-> dropzone, camera |-> camera,
     cameraUpdateTimeout |-> cameraUpdateTimeout,
     filteredIndices |-> filteredIndices, threw |-> FALSE]
\* the state a handler leaves behind
Commit(w) ==
    /\ pointCloud' = w.pointCloud
    /\ currentMaterial' = w.currentMaterial
    /\ currentAnimation' = w.currentAnimation
    /\ scene_children' = w.scene
    /\ originalPositions' = w.originalPositions
    /\ originalColors' = w.originalColors
    /\ originalPointCount' = w.originalPointCount
    /\ params' = w.params
    /\ dropzone' = w.dropzone
    /\ camera' = w.camera
    /\ cameraUpdateTimeout' = w.cameraUpdateTimeout
    /\ filteredIndices' = w.filteredIndices

\* lines 42-60 and 152: the module-level state before initializeApp
FreshWorld ==
    [pointCloud |-> NoneV, currentMaterial |-> NoneV, currentAnimation |-> "none",
     scene |-> {}, originalPositions |-> NoneV, originalColors |-> NoneV,
     originalPointCount |-> 0, params |-> DefaultParams, dropzone |-> { "hidden" },
     camera |-> "initial", cameraUpdateTimeout |-> FALSE, filteredIndices |-> << >>,
     threw |-> FALSE]
\* the viewer is not part of the run
NoPage ==
    /\ pointCloud = NoneV /\ currentMaterial = NoneV /\ currentAnimation = "none"
    /\ scene_children = {} /\ originalPositions = NoneV /\ originalColors = NoneV
    /\ originalPointCount = 0 /\ params = DefaultParams /\ dropzone = { "hidden" }
    /\ camera = "initial" /\ cameraUpdateTimeout = FALSE /\ filteredIndices = << >>
    /\ fileSize = 0 /\ currentCustomFileName = NoneV /\ url = EmptyURL
    /\ dragCounter = 0 /\ leaveTimeouts = 0 /\ dropEffect = "none"
    /\ loads = << >> /\ gui_changes = 0

\* a load in flight or finished: the file and the step it waits for
Load(file, stage, via) == [file |-> file, stage |-> stage, via |-> via]
InFlight == { "fetch", "read", "parse" }
NoLoadInFlight == \A i \in Idx(loads) : loads[i].stage \notin InFlight

\* the page URLs the viewer can be opened with
StartURLs ==
    { EmptyURL,
      [model |-> "mesh.glb"],
      [model |-> "points.glb", wavesEnabled |-> "true"],
      SerializeParamsToURL([FreshWorld EXCEPT !.params.wavesEnabled = TRUE,
                                              !.params.animation = Waves],
                           [model |-> "points.glb"]) }
\* initializeApp(), lines 2829-2925, up to the first loadFileFromURL: the
\* parameters are read from the URL and reconciled, the GUI is built, the
\* list of scenes arrives and the scene to load is chosen
StartScene(u) ==
    IF "model" \in DOMAIN u /\ \E i \in Idx(defaultScenes) : defaultScenes[i] = u["model"]
    THEN u["model"] ELSE defaultScenes[1]
StartWorld(u) ==
    LET w == ApplyRestoredParams(
                 [FreshWorld EXCEPT !.params = DeserializeParams(u, DefaultParams)])
    IN  [w EXCEPT !.params.selectedScene = StartScene(u)]
StartURL(u) == UpdateURLParameter(u, "model", StartScene(u))

\* the page once the first scene is shown and the debounced URL update ran
LoadedWorld(file, u) ==
    LET w == IF file.isPoints THEN UsePointsDirectly(StartWorld(u), file, 1)
             ELSE CreateAndShow(StartWorld(u), file, 1, StartURL(u))
    IN  [w EXCEPT !.cameraUpdateTimeout = FALSE]
LoadedURL(file, u) == SerializeParamsToURL(LoadedWorld(file, u), StartURL(u))


\* the converter is about to read its input file and to call
\* downsample_to_target with the PointSet (cli.py lines 238-241, or any
\* other caller)
Init ==
    /\ pc = "read_point_cloud"
    /\ \E pts \in SeqsUpTo(Palette, MaxN), scheme \in ColorSchemes :
          ply = PipelineFile(pts, scheme)
    /\ NoPointSet
    /\ \E a \in TargetArgs : target_count = a[1] /\ target_size_bytes = a[2]
    /\ size = NoneV
    /\ NothingDone /\ NoRegion /\ NoHttp
    /\ NoPage

\* an exception of class e raised inside function fn propagates out of main()
Raise(e, fn) == pc' = "raised" /\ err' = [type |-> e, where |-> fn]

\* ---- read_point_cloud, lines 155-159 -------------------------------------
ReadPointCloud ==
    /\ pc = "read_point_cloud"
    /\ IF ply.ext = ".ply"
       THEN /\ points' = ReadPly(ply)[1] /\ colors' = ReadPly(ply)[2]
            /\ pc' = "downsample_to_target" /\ err' = err
       ELSE IF ply.ext = ".sog"
       THEN /\ points' = ReadSog(ply)[1] /\ colors' = ReadSog(ply)[2]
            /\ pc' = "downsample_to_target" /\ err' = err
       ELSE /\ Raise("ValueError", "read_point_cloud")
            /\ UNCHANGED << points, colors >>
    /\ UNCHANGED << target_count, target_size_bytes, work_vars, env_vars >>

\* ---- downsample_to_target, lines 112-117 --------------------------------
ResolvedTarget(tc, bytes) ==
    IF IsNone(tc) /\ ~IsNone(bytes) /\ Val(bytes) # 0
    THEN Some(CountFromBytes(Val(bytes)))
    ELSE tc

ResolveTarget ==
    /\ pc = "downsample_to_target"
    /\ target' = ResolvedTarget(target_count, target_size_bytes)
    /\ IF IsNone(target')
       THEN /\ Raise("ValueError", "downsample_to_target")
            /\ UNCHANGED out_vars
       ELSE IF NoDownsamplingNeeded(Val(target'), Len(points))
       THEN /\ pc' = "export"
            /\ out_points' = points /\ out_colors' = colors
            /\ err' = err
       ELSE /\ pc' = "find_voxel_size"
            /\ UNCHANGED << out_vars, err >>
    /\ UNCHANGED << env_vars, glb, input_vars, calib_vars, div_by_zero, voxel_vars, file_vars >>

\* ---- find_voxel_size_for_target, lines 90-91 ----------------------------
CalibrationStart ==
    /\ pc = "find_voxel_size"
    /\ IF Len(points) = 0
       THEN \* points.max(0) of a zero-size array
            /\ Raise("ValueError", "find_voxel_size_for_target")
            /\ UNCHANGED << calib_vars, div_by_zero >>
       ELSE LET diag == BBoxDiag(points) IN
            /\ vmin' = LowerBound(diag, Val(target))
            /\ vmax' = UpperBound(diag)
            /\ vmin0' = vmin' /\ vmax0' = vmax'
            /\ div_by_zero' = (div_by_zero \/ Val(target) = 0)
            /\ pc' = "search"
            /\ UNCHANGED << vmid, iter, count, best_dist, via_tol, voxel_size, err >>
    /\ UNCHANGED << env_vars, glb, input_vars, target, voxel_vars, out_vars, file_vars >>

\* ---- one pass of the loop body, lines 94-101 ----------------------------
CalibrationIteration ==
    /\ pc = "search"
    /\ iter < MaxIter
    /\ vmid' = FMid(vmin, vmax)
    /\ IF vmid'.k = "cplx"
       THEN \* np.floor of a complex array
            /\ Raise("TypeError", "find_voxel_size_for_target")
            /\ UNCHANGED << vmin, vmax, iter, count, best_dist, via_tol, voxel_size,
                            div_by_zero >>
       ELSE /\ \E cast \in CastOutcomes : count' = OccupiedCount(points, vmid', cast)
            /\ best_dist' = IF IsNone(best_dist)
                               \/ Abs(count' - Val(target)) < Val(best_dist)
                            THEN Some(Abs(count' - Val(target))) ELSE best_dist
            /\ div_by_zero' = (div_by_zero \/ vmid' = Fin(0))
            /\ iter' = iter + 1
            /\ IF Val(target) = 0
               THEN \* abs(count - target) / target on Python ints
                    /\ Raise("ZeroDivisionError", "find_voxel_size_for_target")
                    /\ UNCHANGED << vmin, vmax, via_tol, voxel_size >>
               ELSE IF WithinTolerance(count', Val(target))
               THEN /\ voxel_size' = vmid' /\ via_tol' = TRUE
                    /\ pc' = "voxel_grid_nearest"
                    /\ UNCHANGED << vmin, vmax, err >>
               ELSE IF count' > Val(target)
               THEN /\ vmin' = vmid'
                    /\ UNCHANGED << vmax, via_tol, voxel_size, pc, err >>
               ELSE /\ vmax' = vmid'
                    /\ UNCHANGED << vmin, via_tol, voxel_size, pc, err >>
    /\ UNCHANGED << env_vars, glb, input_vars, target, vmin0, vmax0, voxel_vars, out_vars, file_vars >>

\* slip: treating the exhausted budget as a failure
CalibrationExhausted_raises ==
    /\ pc = "search"
    /\ iter = MaxIter
    /\ Raise("RuntimeError", "find_voxel_size_for_target")
    /\ UNCHANGED << env_vars, glb, input_vars, target, calib_vars, div_by_zero, voxel_vars, out_vars,
                    file_vars >>

\* ---- the loop ran out, line 102 -----------------------------------------
CalibrationExhausted ==
    /\ pc = "search"
    /\ iter = MaxIter
    /\ voxel_size' = vmid
    /\ pc' = "voxel_grid_nearest"
    /\ UNCHANGED << env_vars, glb, input_vars, target, vmin, vmax, vmid, vmin0, vmax0, iter, count,
                    best_dist, via_tol, div_by_zero, voxel_vars, out_vars, file_vars,
                    err >>

\* ---- downsample_voxel_grid_nearest, lines 59-74 -------------------------
GroupByVoxel ==
    /\ pc = "voxel_grid_nearest"
    /\ \E cast \in CastOutcomes : voxel_keys' = VoxelKeys(points, voxel_size, cast)
    /\ sorted_indices' \in ArgsortOutcomes(voxel_keys')
    /\ div_by_zero' = (div_by_zero \/ voxel_size = Fin(0))
    /\ pc' = "select"
    /\ UNCHANGED << env_vars, glb, input_vars, target, calib_vars, selected_indices, out_vars,
                    file_vars, err >>

\* ---- lines 76-85 and the return of downsample_to_target, line 121 -------
SelectRepresentatives ==
    /\ pc = "select"
    /\ selected_indices' = SelectedIndices(points, voxel_keys, sorted_indices)
    /\ out_points' = TakePoints(points, colors, selected_indices')
    /\ out_colors' = TakeColors(points, colors, selected_indices')
    /\ pc' = "export"
    /\ UNCHANGED << env_vars, glb, input_vars, target, calib_vars, div_by_zero, voxel_keys,
                    sorted_indices, file_vars, err >>

\* ---- export_glb_with_draco ----------------------------------------------
\* lines 174-175: NamedTemporaryFile(suffix='.glb', delete=False)
CreateTempFile ==
    /\ pc = "export"
    /\ tmp_exists' = TRUE
    /\ pc' = "create_glb"
    /\ UNCHANGED << env_vars, glb, input_vars, target, calib_vars, div_by_zero, voxel_vars, out_vars,
                    output_exists, err >>

\* line 177: _create_glb(points, colors, tmp_path)
CreateGlb ==
    /\ pc = "create_glb"
    /\ IF Len(out_points) = 0
       THEN \* points.max(0) of an empty array
            Raise("ValueError", "_create_glb") /\ glb' = glb
       ELSE \/ pc' = "transcode" /\ err' = err /\ glb' = GlbOf(out_points, out_colors)
            \/ Raise("OSError", "_create_glb") /\ glb' = glb      \* gltf.save(path) fails
    /\ UNCHANGED << env_vars, input_vars, target, calib_vars, div_by_zero, voxel_vars, out_vars,
                    file_vars >>

\* lines 179-182: subprocess.run([...], check=True)
RunTranscoder ==
    /\ pc = "transcode"
    /\ \/ pc' = "unlink" /\ output_exists' = TRUE /\ err' = err
       \/ Raise("CalledProcessError", "export_glb_with_draco") /\ UNCHANGED output_exists
       \/ Raise("FileNotFoundError", "export_glb_with_draco") /\ UNCHANGED output_exists
    /\ UNCHANGED << env_vars, glb, input_vars, target, calib_vars, div_by_zero, voxel_vars, out_vars,
                    tmp_exists >>

\* line 184: Path(tmp_path).unlink(missing_ok=True)
UnlinkTempFile ==
    /\ pc = "unlink"
    /\ tmp_exists' = FALSE
    /\ pc' = "stat"
    /\ UNCHANGED << env_vars, glb, input_vars, target, calib_vars, div_by_zero, voxel_vars, out_vars,
                    output_exists, err >>

\* line 185: return Path(output).stat().st_size
ReturnSize ==
    /\ pc = "stat"
    /\ pc' = "returned"
    /\ UNCHANGED << env_vars, glb, input_vars, target, calib_vars, div_by_zero, voxel_vars, out_vars,
                    file_vars, err >>

Next ==
    \/ ReadPointCloud
    \/ ResolveTarget
    \/ CalibrationStart
    \/ CalibrationIteration
    \/ CalibrationExhausted
    \/ GroupByVoxel
    \/ SelectRepresentatives
    \/ CreateTempFile
    \/ CreateGlb
    \/ RunTranscoder
    \/ UnlinkTempFile
    \/ ReturnSize

Spec == Init /\ [][Next]_vars

\* ---- cli.py line 241: parse_size(size) if size else None ----------------
InitSize ==
    /\ pc = "parse_size"
    /\ size \in { NoneV } \cup { Some(s) : s \in SizeArgs }
    /\ target_count \in { NoneV, Some(2) }
    /\ target_size_bytes = NoneV
    /\ ply = NoFile /\ NoPointSet
    /\ NothingDone /\ NoRegion /\ NoHttp
    /\ NoPage

ParseSizeArg ==
    /\ pc = "parse_size"
    /\ IF IsNone(size) \/ Val(size) = << >>
       THEN /\ target_size_bytes' = NoneV
            /\ pc' = "downsample_to_target" /\ err' = err
       ELSE IF IsNone(ParseSize(Val(size)))
       THEN /\ Raise("ValueError", "parse_size")
            /\ UNCHANGED target_size_bytes
       ELSE /\ target_size_bytes' = ParseSize(Val(size))
            /\ pc' = "downsample_to_target" /\ err' = err
    /\ UNCHANGED << points, colors, target_count, work_vars, env_vars >>

NextSize == ParseSizeArg

SpecSize == InitSize /\ [][NextSize]_vars

\* ---- a file is read by the converter or loaded into the viewer ----------
InitReader ==
    /\ pc \in { "read_point_cloud", "parsePLY" }
    /\ ply \in ReaderFiles
    /\ NoPointSet /\ NoTargets
    /\ NothingDone /\ NoRegion /\ NoHttp
    /\ NoPage

\* main.js lines 608-696
ParsePLY ==
    /\ pc = "parsePLY"
    /\ viewer' = ParsePlyText(ply)
    /\ pc' = "createPointCloud"
    /\ UNCHANGED << input_vars, work_vars, err, ply, size, filter_spec, radius, req,
                    dirs, res, view_vars >>

NextReader ==
    \/ ReadPointCloud
    \/ ParsePLY

SpecReader == InitReader /\ [][NextReader]_vars

\* ---- the region filter is applied to a PointSet -------------------------
InitFilter ==
    /\ pc = "filter"
    /\ points \in SeqsUpTo(FilterPalette, MaxFilterN) \ { << >> }
    /\ colors = [ i \in Idx(points) |-> ColorOf(i) ]
    /\ \E shape \in Shapes, center \in Centers, up \in { 2, 3 } :
          filter_spec = [shape |-> shape, center |-> center, up |-> up]
    /\ radius \in 0 .. MaxRadius
    /\ ply = NoFile /\ NoTargets
    /\ NothingDone /\ NoHttp
    /\ NoPage

ApplyFilter ==
    /\ pc = "filter"
    /\ selected_indices' = Survivors(points, filter_spec, radius)
    /\ out_points' = TakePoints(points, colors, selected_indices')
    /\ out_colors' = TakeColors(points, colors, selected_indices')
    /\ pc' = "filtered"
    /\ UNCHANGED << input_vars, target, calib_vars, div_by_zero, voxel_keys,
                    sorted_indices, file_vars, glb, err, env_vars >>

NextFilter == ApplyFilter

SpecFilter == InitFilter /\ [][NextFilter]_vars

\* ---- a request reaches the scene-list handler ---------------------------
InitModels ==
    /\ pc = "request"
    /\ \E m \in Methods : req = [method |-> m]
    /\ \E st \in [1 .. NumCandidates -> PathStates], listing \in Listings :
          dirs = [ i \in 1 .. NumCandidates |->
                     [state |-> st[i],
                      files |-> IF \A j \in 1 .. (i - 1) : st[j] = "missing"
                                THEN listing ELSE OtherListing] ]
    /\ ply = NoFile /\ NoPointSet /\ NoTargets
    /\ NothingDone /\ NoRegion
    /\ NoPage

HandleRequest ==
    /\ pc = "request"
    /\ IF req.method = "OPTIONS"
       THEN res' = [status |-> 200, headers |-> CorsHeaders, body |-> NoneV]
       ELSE LET scenesDir == FirstExisting(dirs) IN
            IF IsNone(scenesDir) \/ dirs[Val(scenesDir)].state = "unreadable"
            THEN res' = [status |-> 500, headers |-> CorsHeaders,
                         body |-> Some([success |-> FALSE, models |-> << >>])]
            ELSE res' = [status |-> 200, headers |-> CorsHeaders,
                         body |-> Some([success |-> TRUE,
                                        models |-> GlbFiles(dirs[Val(scenesDir)].files)])]
    /\ pc' = "responded"
    /\ UNCHANGED << input_vars, work_vars, err, ply, size, viewer, filter_spec,
                    radius, req, dirs, view_vars >>

NextModels == HandleRequest

SpecModels == InitModels /\ [][NextModels]_vars


\* ---- downsample_voxel_grid_nearest called directly ----------------------
\* points of a scene that is a few units wide and has one far outlier
VoxelPalette == { <<0, 1, 1>>, <<2, 1, 1>>, <<1, 1, 1>>, <<0, 1024, 1024>> }
\* positive voxel sizes: 1.0 and 2.0
VoxelSizes == { Fin(Scale), Fin(2 * Scale) }

\* a caller passes a non-empty PointSet and a positive voxel size
\* (lines 53-57)
InitVoxel ==
    /\ pc = "voxel_grid_nearest"
    /\ points \in SeqsUpTo(VoxelPalette, MaxVoxelN) \ { << >> }
    /\ colors = [ i \in Idx(points) |-> ColorOf(i) ]
    /\ voxel_size \in VoxelSizes
    /\ target = NoneV
    /\ vmin = Fin(0) /\ vmax = Fin(0) /\ vmid = Fin(0)
    /\ vmin0 = Fin(0) /\ vmax0 = Fin(0)
    /\ iter = 0 /\ count = 0 /\ via_tol = FALSE /\ best_dist = NoneV
    /\ div_by_zero = FALSE
    /\ voxel_keys = << >> /\ sorted_indices = << >> /\ selected_indices = << >>
    /\ out_points = << >> /\ out_colors = << >>
    /\ tmp_exists = FALSE /\ output_exists = FALSE
    /\ glb = NoGlb /\ err = NoError /\ viewer = NoViewer /\ res = NoResponse
    /\ ply = NoFile /\ NoTargets /\ NoRegion /\ NoHttp
    /\ NoPage

NextVoxel == GroupByVoxel \/ SelectRepresentatives

SpecVoxel == InitVoxel /\ [][NextVoxel]_vars

\* ---- viewer: event handlers ----------------------------------------------
\* `if (pointCloud) { scene.remove(pointCloud); ...; pointCloud = null;
\* currentMaterial = null }`, lines 241-248 and 1259-1266
DisposePointCloud(w) ==
    IF IsNone(w.pointCloud) THEN w
    ELSE [RemoveOld(w) EXCEPT !.pointCloud = NoneV, !.currentMaterial = NoneV]

Supported == { "glb", "ply", "sog" }
SetStage(i, stage) == loads' = [loads EXCEPT ![i].stage = stage]
UserAction == gui_changes < MaxChanges /\ gui_changes' = gui_changes + 1

\* selectedSceneCtrl.onChange(value), lines 1246-1273, and the synchronous
\* head of loadFileFromURL, lines 236-251
SelectScene(value) ==
    /\ Len(loads) < MaxLoads
    /\ value # params.selectedScene
    /\ \E i \in Idx(defaultScenes) : defaultScenes[i] = value
    /\ Commit(DisposePointCloud([World EXCEPT !.params.selectedScene = value]))
    /\ currentCustomFileName' = NoneV
    /\ url' = UpdateURLParameter(url, "model", value)
    /\ loads' = Append(loads, Load(FileNamed(value), "fetch", "url"))
    /\ UNCHANGED << fileSize, drag_vars, gui_changes, tool_vars >>

\* loadFileFromURL after `await fetch` and `await response.blob()`,
\* lines 255-266, and loadGLB up to its first await
FetchDone(i) ==
    /\ loads[i].stage = "fetch"
    /\ fileSize' = loads[i].file.bytes
    /\ SetStage(i, IF loads[i].file.ext \in Supported THEN "read" ELSE "failed")
    /\ UNCHANGED << page_vars, currentCustomFileName, url, drag_vars, gui_changes,
                    tool_vars >>

\* the catch block of loadFileFromURL, lines 267-274
FetchFailed(i) ==
    /\ loads[i].stage = "fetch"
    /\ SetStage(i, "failed")
    /\ dropzone' = IF IsNone(pointCloud) THEN dropzone \ { "hidden" } ELSE dropzone
    /\ UNCHANGED << pointCloud, currentMaterial, currentAnimation, scene_children,
                    originalPositions, originalColors, originalPointCount, params,
                    camera, cameraUpdateTimeout, filteredIndices, fileSize,
                    currentCustomFileName, url, drag_vars, gui_changes, tool_vars >>

\* the file was read: loadGLB goes on to loader.parse (lines 332-340);
\* reader.onload of loadPLY runs parsePLY to its end (lines 587-598, 608-696)
ReadDone(i) ==
    /\ loads[i].stage = "read"
    /\ IF loads[i].file.ext = "glb"
       THEN /\ SetStage(i, "parse")
            /\ UNCHANGED page_vars
       ELSE LET w == CreateAndShow(World, loads[i].file, i, url)
            IN  /\ Commit(w)
                /\ SetStage(i, IF w.threw THEN "threw" ELSE "done")
    /\ UNCHANGED << fileSize, currentCustomFileName, url, drag_vars, gui_changes,
                    tool_vars >>

\* the onLoad callback of loader.parse, lines 340-577
ParseDone(i) ==
    /\ loads[i].stage = "parse"
    /\ LET w == IF loads[i].file.isPoints
                THEN UsePointsDirectly(World, loads[i].file, i)
                ELSE CreateAndShow(World, loads[i].file, i, url)
       IN  /\ Commit(w)
           /\ SetStage(i, IF w.threw THEN "threw" ELSE "done")
    /\ UNCHANGED << fileSize, currentCustomFileName, url, drag_vars, gui_changes,
                    tool_vars >>

\* the onError callback of loader.parse, lines 578-581
ParseFailed(i) ==
    /\ loads[i].stage = "parse"
    /\ SetStage(i, "failed")
    /\ UNCHANGED << page_vars, fileSize, currentCustomFileName, url, drag_vars,
                    gui_changes, tool_vars >>

\* loadFile(file), lines 278-305
LoadFile(w, file) ==
    /\ fileSize' = file.bytes
    /\ currentCustomFileName' = Some(file.name)
    /\ Commit([w EXCEPT !.params.selectedScene = file.name])
    /\ loads' = IF file.ext \in Supported
                THEN Append(loads, Load(file, "read", "file")) ELSE loads

\* the change listener of the file input, lines 228-233
OpenFile(file) ==
    /\ Len(loads) < MaxLoads
    /\ LoadFile(World, file)
    /\ UNCHANGED << url, drag_vars, gui_changes, tool_vars >>

\* handleDragEnter, lines 154-162
DragEnter(hasItems) ==
    /\ dragCounter < MaxDrag
    /\ dragCounter' = dragCounter + 1
    /\ dropzone' = IF hasItems THEN (dropzone \ { "hidden" }) \cup { "drag-active" }
                   ELSE dropzone
    /\ UNCHANGED << pointCloud, currentMaterial, currentAnimation, scene_children,
                    originalPositions, originalColors, originalPointCount, params,
                    camera, cameraUpdateTimeout, filteredIndices, fileSize,
                    currentCustomFileName, url, leaveTimeouts, dropEffect, loads,
                    gui_changes, tool_vars >>

\* handleDragLeave, lines 164-178: the counter drops and a timeout is set
DragLeave ==
    /\ dragCounter > -MaxDrag /\ leaveTimeouts < MaxDrag
    /\ dragCounter' = dragCounter - 1
    /\ leaveTimeouts' = leaveTimeouts + 1
    /\ UNCHANGED << page_vars, fileSize, currentCustomFileName, url, dropEffect,
                    loads, gui_changes, tool_vars >>

\* the timeout callback of handleDragLeave, lines 169-177
DragLeaveTimeout ==
    /\ leaveTimeouts > 0
    /\ leaveTimeouts' = leaveTimeouts - 1
    /\ dropzone' = IF dragCounter = 0
                   THEN (dropzone \ { "drag-active" })
                        \cup (IF IsNone(pointCloud) THEN { "hidden" } ELSE {})
                   ELSE dropzone
    /\ UNCHANGED << pointCloud, currentMaterial, currentAnimation, scene_children,
                    originalPositions, originalColors, originalPointCount, params,
                    camera, cameraUpdateTimeout, filteredIndices, fileSize,
                    currentCustomFileName, url, dragCounter, dropEffect, loads,
                    gui_changes, tool_vars >>

\* handleDragOver, lines 180-184
DragOver ==
    /\ dropEffect' = "copy"
    /\ UNCHANGED << page_vars, fileSize, currentCustomFileName, url, dragCounter,
                    leaveTimeouts, loads, gui_changes, tool_vars >>

\* handleDrop, lines 186-206; files is e.dataTransfer.files[0] if there is one
Drop(files) ==
    /\ dragCounter' = 0
    /\ LET w == [World EXCEPT !.dropzone = @ \ { "drag-active" }]
       IN  IF IsNone(files)
           THEN /\ Commit(w)
                /\ UNCHANGED << fileSize, currentCustomFileName, loads >>
           ELSE IF Val(files).ext \in Supported
           THEN /\ Len(loads) < MaxLoads
                /\ LoadFile(w, Val(files))
           ELSE /\ Commit(IF IsNone(w.pointCloud)
                          THEN [w EXCEPT !.dropzone = @ \ { "hidden" }] ELSE w)
                /\ UNCHANGED << fileSize, currentCustomFileName, loads >>
    /\ UNCHANGED << url, leaveTimeouts, dropEffect, gui_changes, tool_vars >>

\* the 'change' listener of the OrbitControls, lines 24-31, when the user
\* moves the camera
OrbitCamera ==
    /\ camera' = "orbited"
    /\ cameraUpdateTimeout' = TRUE
    /\ UNCHANGED << pointCloud, currentMaterial, currentAnimation, scene_children,
                    originalPositions, originalColors, originalPointCount, params,
                    dropzone, filteredIndices, fileSize, currentCustomFileName, url,
                    drag_vars, loads, gui_changes, tool_vars >>

\* the debounce timeout of lines 28-30
CameraTimeout ==
    /\ cameraUpdateTimeout
    /\ cameraUpdateTimeout' = FALSE
    /\ url' = SerializeParamsToURL(World, url)
    /\ UNCHANGED << pointCloud, currentMaterial, currentAnimation, scene_children,
                    originalPositions, originalColors, originalPointCount, params,
                    dropzone, camera, filteredIndices, fileSize,
                    currentCustomFileName, drag_vars, loads, gui_changes, tool_vars >>

\* ---- viewer: GUI controls (initGUI) --------------------------------------
\* a controller writes the value into params, then calls its onChange
Changed(key, value) == [World EXCEPT !.params[key] = value]
\* a handler that ends with serializeParamsToURL()
CommitAndSerialize(w) == Commit(w) /\ url' = SerializeParamsToURL(w, url)
gui_frame == << fileSize, currentCustomFileName, drag_vars, loads, tool_vars >>

\* the values a control is moved between
ParamChoices(key) ==
    CASE key = "pointSize" -> { 3, 5 }
      [] key = "opacity" -> { 100, 50 }
      [] key = "colorMode" -> { "file", "custom" }
      [] key = "customColor" -> { "#ff5500", "#00ff00" }
      [] key = "backgroundColor" -> { "#1a1a2e", "#000000" }
      [] key = "useShaderMaterial" -> BOOLEAN
      [] key = "wavesEnabled" -> BOOLEAN
      [] key = "wavesAmplitude" -> { 300, 120 }
      [] key = "wavesPeriod" -> { 100, 250 }
      [] key = "wavesSpeed" -> { 500, 10 }
      [] key = "wavesColor" -> { "#ffffff", "#0000ff" }
      [] key = "wavesColorIntensity" -> { 500, 0 }
      [] key = "wavesDisplacementAxis" -> { "x", "y", "z" }
      [] key = "wavesDisplacement" -> { 100, 1000 }
NewValues(key) == ParamChoices(key) \ { params[key] }

\* pointSizeCtrl.onChange, lines 1342-1350
ChangePointSize(value) ==
    /\ UserAction /\ value \in NewValues("pointSize")
    /\ Commit(Changed("pointSize", value))
    /\ UNCHANGED << url, gui_frame >>

\* opacityCtrl.onChange, lines 1353-1363
ChangeOpacity(value) ==
    /\ UserAction /\ value \in NewValues("opacity")
    /\ CommitAndSerialize(Changed("opacity", value))
    /\ UNCHANGED gui_frame

\* colorModeCtrl.onChange, lines 1367-1403
ChangeColorMode(value) ==
    /\ UserAction /\ value \in NewValues("colorMode")
    /\ LET w == Changed("colorMode", value)
       IN  IF IsNone(pointCloud)
           THEN Commit(w) /\ url' = url
           ELSE IF params.useShaderMaterial
           THEN CommitAndSerialize(ApplyAnimation(w, currentAnimation))
           ELSE IF IsNone(currentMaterial)
           THEN Commit(w) /\ url' = url
           ELSE CommitAndSerialize(w)
    /\ UNCHANGED gui_frame

\* customColorCtrl.onChange, lines 1406-1429
ChangeCustomColor(value) ==
    /\ UserAction /\ value \in NewValues("customColor")
    /\ IF IsNone(pointCloud)
       THEN Commit(Changed("customColor", value)) /\ url' = url
       ELSE CommitAndSerialize(Changed("customColor", value))
    /\ UNCHANGED gui_frame

\* backgroundColorCtrl.onChange, lines 1433-1436
ChangeBackgroundColor(value) ==
    /\ UserAction /\ value \in NewValues("backgroundColor")
    /\ CommitAndSerialize(Changed("backgroundColor", value))
    /\ UNCHANGED gui_frame

\* useShaderCtrl.onChange, lines 1461-1467
ChangeUseShaderMaterial(value) ==
    /\ UserAction /\ value \in NewValues("useShaderMaterial")
    /\ CommitAndSerialize(ApplyAnimation(Changed("useShaderMaterial", value),
                                         currentAnimation))
    /\ UNCHANGED gui_frame

\* wavesEnabledCtrl.onChange, lines 1475-1489
ToggleWaves(value) ==
    /\ UserAction /\ value \in NewValues("wavesEnabled")
    /\ LET w == Changed("wavesEnabled", value)
           type == IF value THEN Waves ELSE "none"
       IN  IF IsNone(pointCloud)
           THEN CommitAndSerialize(w)
           ELSE CommitAndSerialize(
                    ApplyAnimation([w EXCEPT !.params.animation = type,
                                             !.currentAnimation = type], type))
    /\ UNCHANGED gui_frame

\* the onChange handlers of the seven other wave controls, lines 1491-1554:
\* each updates a uniform of the material and serializes
WaveControls == { "wavesAmplitude", "wavesPeriod", "wavesSpeed", "wavesColor",
                  "wavesColorIntensity", "wavesDisplacementAxis", "wavesDisplacement" }
ChangeWavesParam(key, value) ==
    /\ UserAction /\ key \in WaveControls /\ value \in NewValues(key)
    /\ CommitAndSerialize(Changed(key, value))
    /\ UNCHANGED gui_frame

\* Math.floor((value / 100) * originalPointCount), line 1298
PercentTarget(value, n) == (value * n) \div 100
\* Math.round((value / originalPointCount) * 100), line 1312
PercentOf(value, n) == (200 * value + n) \div (2 * n)
Percents == { 0, 34, 50, 67, 100 }

\* pointPercentCtrl.onChange, lines 1296-1306
ChangePointPercent(value) ==
    /\ UserAction /\ value \in Percents \ { params.pointPercent }
    /\ LET w == Changed("pointPercent", value)
           targetCount == PercentTarget(value, originalPointCount)
       IN  IF originalPointCount > 0
           THEN \E S \in FilterChoices(w, targetCount) :
                   Commit(FilterPointsUniformly(
                              [w EXCEPT !.params.maxPoints = targetCount],
                              targetCount, S))
           ELSE Commit(w)
    /\ UNCHANGED << url, gui_frame >>

\* maxPointsCtrl.onChange, lines 1309-1320
ChangeMaxPoints(value) ==
    /\ UserAction /\ value \in (0 .. originalPointCount) \ { params.maxPoints }
    /\ LET w == Changed("maxPoints", value)
       IN  IF originalPointCount > 0
           THEN \E S \in FilterChoices(w, value) :
                   Commit(FilterPointsUniformly(
                              [w EXCEPT !.params.pointPercent =
                                            PercentOf(value, originalPointCount)],
                              value, S))
           ELSE Commit(w)
    /\ UNCHANGED << url, gui_frame >>

\* ---- viewer specifications -----------------------------------------------
\* the page is in state w
Shows(w) ==
    /\ pointCloud = w.pointCloud
    /\ currentMaterial = w.currentMaterial
    /\ currentAnimation = w.currentAnimation
    /\ scene_children = w.scene
    /\ originalPositions = w.originalPositions
    /\ originalColors = w.originalColors
    /\ originalPointCount = w.originalPointCount
    /\ params = w.params
    /\ dropzone = w.dropzone
    /\ camera = w.camera
    /\ cameraUpdateTimeout = w.cameraUpdateTimeout
    /\ filteredIndices = w.filteredIndices
\* the converter and the API handler are not part of the run
NoTool ==
    /\ pc = "viewer" /\ ply = NoFile
    /\ NoPointSet /\ NoTargets /\ NothingDone /\ NoRegion /\ NoHttp
NoDrag == dragCounter = 0 /\ leaveTimeouts = 0 /\ dropEffect = "none"
\* the first scene is shown, the URL is written and nothing is pending
SceneShown(file) ==
    /\ Shows(LoadedWorld(file, EmptyURL))
    /\ url = LoadedURL(file, EmptyURL)
    /\ fileSize = file.bytes /\ currentCustomFileName = NoneV
    /\ loads = << Load(file, "done", "url") >>
    /\ NoDrag /\ gui_changes = 0

\* initializeApp has started the first load (line 2821 or 2908)
InitViewer ==
    /\ NoTool
    /\ \E u \in StartURLs :
          /\ Shows(StartWorld(u))
          /\ url = StartURL(u)
          /\ loads = << Load(FileNamed(StartScene(u)), "fetch", "url") >>
    /\ fileSize = 0 /\ currentCustomFileName = NoneV
    /\ NoDrag /\ gui_changes = 0

NextViewer ==
    \/ \E i \in Idx(defaultScenes) : SelectScene(defaultScenes[i])
    \/ \E i \in Idx(loads) : FetchDone(i)
    \/ \E i \in Idx(loads) : FetchFailed(i)
    \/ \E i \in Idx(loads) : ReadDone(i)
    \/ \E i \in Idx(loads) : ParseDone(i)
    \/ \E i \in Idx(loads) : ParseFailed(i)
    \/ \E file \in CustomFiles : OpenFile(file)
    \/ \E value \in BOOLEAN : ToggleWaves(value)
    \/ CameraTimeout

SpecViewer == InitViewer /\ [][NextViewer]_vars

\* drag and drop over a page that shows a scene, or whose first load failed
InitDrag ==
    /\ NoTool
    /\ \/ \E file \in DefaultSceneFiles : SceneShown(file)
       \/ /\ Shows([StartWorld(EmptyURL) EXCEPT !.dropzone = {}])
          /\ url = StartURL(EmptyURL)
          /\ loads = << Load(FileNamed(StartScene(EmptyURL)), "failed", "url") >>
          /\ fileSize = 0 /\ currentCustomFileName = NoneV
          /\ NoDrag /\ gui_changes = 0

NextDrag ==
    \/ \E hasItems \in BOOLEAN : DragEnter(hasItems)
    \/ DragLeave
    \/ DragLeaveTimeout
    \/ DragOver
    \/ \E files \in { NoneV } \cup { Some(f) : f \in CustomFiles } : Drop(files)
    \/ \E i \in Idx(loads) : ReadDone(i)
    \/ \E i \in Idx(loads) : ParseDone(i)
    \/ \E i \in Idx(loads) : ParseFailed(i)
    \/ CameraTimeout

SpecDrag == InitDrag /\ [][NextDrag]_vars

\* the display and animation controls of a page that shows a scene
InitShare == NoTool /\ \E file \in DefaultSceneFiles : SceneShown(file)

NextShare ==
    \/ \E value \in ParamChoices("pointSize") : ChangePointSize(value)
    \/ \E value \in ParamChoices("opacity") : ChangeOpacity(value)
    \/ \E value \in ParamChoices("colorMode") : ChangeColorMode(value)
    \/ \E value \in ParamChoices("customColor") : ChangeCustomColor(value)
    \/ \E value \in ParamChoices("backgroundColor") : ChangeBackgroundColor(value)
    \/ \E value \in BOOLEAN : ChangeUseShaderMaterial(value)
    \/ \E value \in BOOLEAN : ToggleWaves(value)
    \/ \E key \in WaveControls : \E value \in ParamChoices(key) : ChangeWavesParam(key, value)
    \/ OrbitCamera
    \/ CameraTimeout

SpecShare == InitShare /\ [][NextShare]_vars

\* the point filter controls of a page that shows a scene
InitPoints == NoTool /\ \E file \in DefaultSceneFiles : SceneShown(file)

NextPoints ==
    \/ \E value \in Percents : ChangePointPercent(value)
    \/ \E value \in 0 .. originalPointCount : ChangeMaxPoints(value)
    \/ \E value \in BOOLEAN : ChangeUseShaderMaterial(value)

SpecPoints == InitPoints /\ [][NextPoints]_vars

\* =========================================================================
\* Properties
\* =========================================================================
DownsamplerFns == { "downsample_to_target", "find_voxel_size_for_target" }

\* downsample_to_target has returned a point set to main()
DownsampleReturned ==
    \/ pc \in { "export", "create_glb", "transcode", "unlink", "stat", "returned" }
    \/ pc = "raised" /\ err.where \notin DownsamplerFns

\* downsample_to_target raised
DownsampleRaised == pc = "raised" /\ err.where \in DownsamplerFns

\* the returned set came out of downsample_voxel_grid_nearest
ViaVoxelGrid == DownsampleReturned /\ sorted_indices # << >>

\* C1: every point the voxel-grid-nearest downsampler (and so
\* downsample_to_target) returns is (positions[i], colors[i]) for one single
\* input index i.
C1_PointIdentity ==
    DownsampleReturned =>
        /\ Len(out_points) = Len(out_colors)
        /\ \A k \in Idx(out_points) :
              \E i \in Idx(points) :
                 out_points[k] = points[i] /\ out_colors[k] = colors[i]

\* a voxel holding two different positions has been reduced to one point
C1_Witness ==
    /\ ViaVoxelGrid
    /\ Len(out_points) >= 2
    /\ \E i, j \in Idx(points) :
          voxel_keys[i] = voxel_keys[j] /\ points[i] # points[j]

\* C2: with target_count >= N, downsample_to_target returns the input
\* unchanged (same length, elements, order) and raises nothing.
C2_NoOpIdentity ==
    (~IsNone(target) /\ Val(target) >= Len(points)) =>
        /\ DownsampleReturned
        /\ out_points = points
        /\ out_colors = colors

\* target_count equals N for a cloud with repeated positions
C2_Witness ==
    /\ DownsampleReturned
    /\ ~IsNone(target) /\ Val(target) = Len(points)
    /\ Len(points) >= 2
    /\ \E i, j \in Idx(points) : i # j /\ points[i] = points[j]

\* downsample_to_target is past lines 112-115
TargetResolved == pc \notin { "read_point_cloud", "downsample_to_target" }

\* C3 (as claimed): downsample_to_target fails with the invalid-target error
\* (the ValueError of line 115) when no target is resolvable and when the
\* resolved target_count is <= 0.
C3_InvalidTargetRejected ==
    (/\ TargetResolved
     /\ \/ IsNone(ResolvedTarget(target_count, target_size_bytes))
        \/ Val(ResolvedTarget(target_count, target_size_bytes)) <= 0)
    => (pc = "raised" /\ err = [type |-> "ValueError", where |-> "downsample_to_target"])

\* find_voxel_size_for_target has returned a voxel size
CalibrationReturned == pc \in { "voxel_grid_nearest", "select" } \/ ViaVoxelGrid

TargetAtLeastOne == ~IsNone(target) /\ Val(target) >= 1

CalibrationStarted == pc = "search" \/ iter >= 1

\* C5 (as claimed): a count above the target raises the lower bound to
\* v_mid, a count below it lowers the upper bound to v_mid; vmin <= vmax
\* throughout and every evaluated midpoint lies in [vmin0, vmax0].
C5_SearchBounds ==
    /\ [](CalibrationStarted =>
            /\ FLeq(vmin, vmax)
            /\ iter >= 1 => (FLeq(vmin0, vmid) /\ FLeq(vmid, vmax0)))
    /\ [][(pc = "search" /\ pc' = "search" /\ iter' = iter + 1) =>
            /\ count' > Val(target) => (vmin' = vmid' /\ vmax' = vmax)
            /\ count' < Val(target) => (vmax' = vmid' /\ vmin' = vmin)]_vars

Degenerate == Len(points) > 1 /\ \A i \in Idx(points) : points[i] = points[1]

\* C6 (as claimed): all N > 1 points identical and 1 <= target_count < N:
\* no division by zero is performed and exactly one input point is returned.
C6_DegenerateSingleVoxel ==
    (Degenerate /\ TargetAtLeastOne /\ Val(target) < Len(points)) =>
        /\ ~div_by_zero
        /\ ~DownsampleRaised
        /\ DownsampleReturned =>
              /\ Len(out_points) = 1 /\ Len(out_colors) = 1
              /\ \E i \in Idx(points) :
                    out_points[1] = points[i] /\ out_colors[1] = colors[i]

RECURSIVE SumOver(_, _, _)
SumOver(pts, S, a) ==
    IF S = {} THEN 0
    ELSE LET x == CHOOSE y \in S : TRUE
         IN  pts[x][a] + SumOver(pts, S \ {x}, a)

\* squared distance of point i to the centroid of the members S, times |S|^2
CentroidDist2(pts, S, i) ==
    LET d(a) == Cardinality(S) * pts[i][a] - SumOver(pts, S, a)
    IN  d(1) * d(1) + d(2) * d(2) + d(3) * d(3)

VoxelMembers(i) == { m \in Idx(points) : voxel_keys[m] = voxel_keys[i] }

\* C7 (as claimed): the representative of a voxel is a member at minimal
\* distance to the centroid of the members, and among the members at that
\* distance it is the first in input order.
C7_NearestFirstInInputOrder ==
    ViaVoxelGrid =>
        \A j \in Idx(selected_indices) :
            LET s == selected_indices[j]
                S == VoxelMembers(s)
            IN  \A m \in S :
                   /\ CentroidDist2(points, S, s) <= CentroidDist2(points, S, m)
                   /\ CentroidDist2(points, S, s) = CentroidDist2(points, S, m) => s <= m

C9_CountMatchesCalibration ==
    (ViaVoxelGrid /\ via_tol) =>
        /\ Len(out_points) = count
        /\ TolDen * Abs(Len(out_points) - Val(target)) <= TolNum * Val(target)

\* three voxels out of four points
C9_Witness ==
    /\ ViaVoxelGrid /\ via_tol
    /\ Len(out_points) >= 3
    /\ Len(out_points) < Len(points)

\* C10 (as claimed): when export_glb_with_draco returns or raises, the
\* temporary .glb file no longer exists.
C10_TempFileRemoved ==
    pc \in { "returned", "raised" } => ~tmp_exists

\* _create_glb has built and saved the container
GlbCreated == glb # NoGlb

\* C11: in the container built for N points the position view starts at
\* byte 0 and is 12*N bytes long, the color view starts at byte 12*N and is
\* 12*N bytes long, the buffer's byteLength is the sum of both lengths and the
\* length of the blob (no gap, no overlap), and the POSITION and COLOR_0
\* accessors both declare count = N.
C11_BufferViewsPartition ==
    GlbCreated =>
        LET n == Len(out_points)
            position == glb.accessors[glb.attributes.POSITION + 1]
            color == glb.accessors[glb.attributes.COLOR_0 + 1]
            pos == glb.bufferViews[position.bufferView + 1]
            col == glb.bufferViews[color.bufferView + 1]
        IN  /\ pos.byteOffset = 0 /\ pos.byteLength = 12 * n
            /\ col.byteOffset = 12 * n /\ col.byteLength = 12 * n
            /\ glb.buffers[1].byteLength = pos.byteLength + col.byteLength
            /\ glb.blob = glb.buffers[1].byteLength
            /\ pos.byteOffset + pos.byteLength = col.byteOffset
            /\ col.byteOffset + col.byteLength = glb.blob
            /\ position.count = n /\ color.count = n

\* a downsampled set of several points has been exported
C11_Witness ==
    /\ pc = "returned"
    /\ GlbCreated
    /\ ViaVoxelGrid
    /\ Len(out_points) >= 2

\* C12 (as claimed): exporting an empty point set does not fail; the
\* exporter builds a container whose POSITION accessor declares count = 0.
C12_EmptyExportSucceeds ==
    (pc \in { "transcode", "unlink", "stat", "returned", "raised" }
       /\ DownsampleReturned /\ out_points = << >>) =>
        /\ GlbCreated
        /\ glb.accessors[glb.attributes.POSITION + 1].count = 0

\* C13 (as claimed): with only a byte-size target, target_count is
\* floor(target_size_bytes / 14) and everything after is as for that explicit
\* target_count; with an explicit target_count the byte size is ignored.
C13_ByteSizeTarget ==
    TargetResolved =>
        /\ (IsNone(target_count) /\ ~IsNone(target_size_bytes)) =>
               target = ResolvedTarget(Some(Val(target_size_bytes) \div 14), NoneV)
        /\ ~IsNone(target_count) => target = target_count

\* the byte count the documentation gives a number followed by a unit
DocumentedUnits ==
    { << << >>, 1024 >>, << << "k", "b" >>, 1024 >>,
      << << "m", "b" >>, 1024 * 1024 >>, << << "g", "b" >>, 1024 * 1024 * 1024 >> }

\* C14 (as claimed): a --size value without a unit is in kilobytes, and one
\* ending in kb, mb, gb is multiplied by 1024, 1024^2, 1024^3, before it
\* becomes the byte-size target.
C14_SizeUnits ==
    \A d \in { n \in SizeNumbers : n # << >> /\ AllDigits(n) }, u \in DocumentedUnits :
        (pc # "parse_size" /\ size = Some(d \o u[1])) =>
            target_size_bytes = Some(DigitsValue(d) * u[2])

\* round((0.5 + SH_C0 * f) * 255) clamped to 0..255, for f = k / DcDen
RoundedChannel(k) ==
    LET r == (2 * ShNum(k) + ShDen) \div (2 * ShDen)
    IN  IF r < 0 THEN 0 ELSE IF r > 255 THEN 255 ELSE r

\* the file carries spherical-harmonics DC coefficients, in columns 4..6
IsHarmonics == HasProp(ply, "f_dc_0")

\* C15 (as claimed): every channel decoded from a DC coefficient is
\* round((0.5 + 0.28209479177387814 * f_dc) * 255) clamped to 0..255, an
\* integer in 0..255; f_dc = 0 gives 128.
C15_ShDecodeRounds ==
    /\ (pc = "downsample_to_target" /\ ply.ext = ".sog" /\ IsHarmonics) =>
          \A r \in Idx(ply.rows), ch \in 1 .. 3 :
             /\ colors[r][ch] \in 0 .. 255
             /\ colors[r][ch] = RoundedChannel(ply.rows[r][3 + ch])
    /\ (pc = "createPointCloud" /\ IsHarmonics /\ ~viewer.alerted) =>
          /\ ~IsNone(viewer.colors)
          /\ \A r \in Idx(ply.rows), ch \in 1 .. 3 :
                Val(viewer.colors)[r][ch] = RoundedChannel(ply.rows[r][3 + ch])

\* the file declares x, y, z, red, green, blue in some column order
IsDirectColor == HasProp(ply, "red")

\* C16 (as claimed): from a text file declaring x, y, z and red, green, blue
\* in any column order, every vertex gets the x, y, z and red, green, blue
\* values of its own row, each from the column that declares the property.
C16_ColumnsByName ==
    IsDirectColor =>
        /\ pc = "downsample_to_target" =>
              /\ Len(points) = Len(ply.rows) /\ Len(colors) = Len(ply.rows)
              /\ \A r \in Idx(ply.rows) :
                    /\ points[r] = << CellValue(r, 1), CellValue(r, 2), CellValue(r, 3) >>
                    /\ colors[r] = << CellValue(r, 4), CellValue(r, 5), CellValue(r, 6) >>
        /\ (pc = "createPointCloud" /\ ply.rows # << >>) =>
              /\ ~viewer.alerted
              /\ ~IsNone(viewer.colors)
              /\ Len(viewer.positions) = Len(ply.rows)
              /\ \A r \in Idx(ply.rows) :
                    /\ viewer.positions[r] =
                          << Fin(CellValue(r, 1)), Fin(CellValue(r, 2)),
                             Fin(CellValue(r, 3)) >>
                    /\ Val(viewer.colors)[r] =
                          << CellValue(r, 4), CellValue(r, 5), CellValue(r, 6) >>

\* C17: at the reader's output (the downsampler's input) and at the
\* downsampler's output (the exporter's input) positions and colors have
\* the same length and entry i of both belongs to the same vertex; a source
\* without color properties gives one white color per vertex.
C17_ParallelSequences ==
    /\ pc # "read_point_cloud" =>
          /\ Len(points) = Len(ply.rows)
          /\ Len(colors) = Len(points)
          /\ \A i \in Idx(points) :
                /\ points[i] = SubSeq(ply.rows[i], 1, 3)
                /\ colors[i] = IF HasProp(ply, "red") THEN SubSeq(ply.rows[i], 4, 6)
                               ELSE << 255, 255, 255 >>
    /\ DownsampleReturned =>
          /\ Len(out_colors) = Len(out_points)
          /\ \A k \in Idx(out_points) :
                \E i \in Idx(points) :
                   out_points[k] = points[i] /\ out_colors[k] = colors[i]

\* a source without colors has been read, downsampled and exported
C17_Witness ==
    /\ pc = "returned"
    /\ ~HasProp(ply, "red")
    /\ ViaVoxelGrid
    /\ Len(points) >= 3 /\ Len(out_points) >= 2

\* the region filter has returned
Filtered == pc = "filtered"
IndexSet(s) == { s[j] : j \in Idx(s) }

\* C18: for a fixed point set, shape and center, every point that survives
\* radius_fraction r1 survives every r2 >= r1, so the number of survivors
\* never decreases as radius_fraction grows.
C18_FilterMonotone ==
    Filtered =>
        \A r2 \in radius .. (MaxRadius + 1) :
            LET wider == Survivors(points, filter_spec, r2)
            IN  /\ IndexSet(selected_indices) \subseteq IndexSet(wider)
                /\ Len(selected_indices) <= Len(wider)

\* a hemisphere around the centroid keeps some points, and more with a
\* larger radius_fraction
C18_Witness ==
    /\ Filtered
    /\ filter_spec.shape = "hemisphere" /\ filter_spec.center.kind = "centroid"
    /\ radius >= 1
    /\ out_points # << >>
    /\ \E r2 \in (radius + 1) .. MaxRadius :
          Len(Survivors(points, filter_spec, r2)) > Len(selected_indices)

AtCenter(i) == \A a \in 1 .. 3 : Offset(points, filter_spec.center, i)[a] = 0

Responded == pc = "responded"
\* the name ends in ".glb" in any letter case
EndsInGlb(name) ==
    /\ Len(name) >= 4
    /\ ToLower(SubSeq(name, Len(name) - 3, Len(name))) = << ".", "g", "l", "b" >>

\* C20: a request other than OPTIONS is answered with 200, success = true
\* and models = the entries of the first existing candidate directory whose
\* names end in ".glb" in any letter case, in ascending order, when that
\* directory can be read; and with 500, success = false, when no candidate
\* exists or reading fails.
C20_SceneList ==
    (Responded /\ req.method # "OPTIONS") =>
        LET existing == { i \in DOMAIN dirs : dirs[i].state # "missing" }
        IN  IF existing # {} /\ dirs[SetMin(existing)].state = "dir"
            THEN LET files == dirs[SetMin(existing)].files
                     models == Val(res.body).models
                 IN  /\ res.status = 200
                     /\ Val(res.body).success = TRUE
                     /\ IndexSet(models) = { f \in IndexSet(files) : EndsInGlb(f) }
                     /\ \A j \in 1 .. (Len(models) - 1) : StrLess(models[j], models[j + 1])
            ELSE /\ res.status = 500
                 /\ Val(res.body).success = FALSE

\* the second candidate is the first existing one; its three entries are
\* listed out of order and two of them are scene files, one in upper case
C20_Witness ==
    /\ Responded /\ req.method = "GET"
    /\ dirs[1].state = "missing" /\ dirs[2].state = "dir"
    /\ Len(dirs[2].files) = 3
    /\ res.status = 200
    /\ Len(Val(res.body).models) = 2
    /\ Val(res.body).models # SelectSeq(dirs[2].files, EndsInGlb)
    /\ << "B", ".", "G", "L", "B" >> \in IndexSet(Val(res.body).models)

\* ---- the voxel grid called directly (SpecVoxel) --------------------------
VoxelGrouped == pc \in { "select", "export" } /\ IsFin(voxel_size) /\ voxel_size.v > 0
VoxelReturned == pc = "export" /\ IsFin(voxel_size) /\ voxel_size.v > 0
\* floored grid index of point i; the cast plays no part for a finite quotient
CellOf(i) == GridIndex(points[i], voxel_size, CHOOSE c \in CastOutcomes : TRUE)
OccupiedCells == { CellOf(i) : i \in Idx(points) }

\* C22: the linearized voxel key is injective on the grid indices of the
\* point set: two points have the same key exactly when their floored grid
\* indices agree on all three axes.
C22_KeyInjective ==
    VoxelGrouped =>
        \A i, j \in Idx(points) :
            (voxel_keys[i] = voxel_keys[j]) <=> (CellOf(i) = CellOf(j))

\* C23: for a non-empty input and a positive voxel size the downsampler
\* returns exactly one point per occupied voxel: as many points as there are
\* occupied cells, no two of them in the same cell, and every occupied cell
\* represented by one of its own members.
C23_OnePointPerVoxel ==
    VoxelReturned =>
        /\ Len(selected_indices) = Cardinality(OccupiedCells)
        /\ \A a, b \in Idx(selected_indices) :
              a # b => CellOf(selected_indices[a]) # CellOf(selected_indices[b])
        /\ \A i \in Idx(points) :
              \E a \in Idx(selected_indices) : CellOf(selected_indices[a]) = CellOf(i)

\* ---- the viewer ----------------------------------------------------------
Loaded == ~IsNone(pointCloud)
\* no handler is running between two steps; nothing else is pending
Idle == Loaded /\ NoLoadInFlight /\ ~cameraUpdateTimeout
ViewKeys == SerializedKeys \ { "animSpeed", "animAmplitude" }

\* C21: whenever the viewer is idle, the page URL encodes the current value
\* of every serialized view parameter and still carries the model parameter,
\* so that deserializing the URL reproduces those values.
C21_UrlReproducesView ==
    Idle =>
        /\ "model" \in DOMAIN url
        /\ \A key \in ViewKeys :
              DeserializeParams(url, DefaultParams)[key] = params[key]

\* the target of the last change of a point filter control
LastTarget == params.maxPoints
PointsFiltered == Loaded /\ gui_changes > 0 /\ LastTarget < originalPointCount
Displayed == Val(pointCloud).position
Distinct(s) == \A i, j \in Idx(s) : s[i] = s[j] => i = j

\* C24: for every target with 0 <= target < originalPointCount the filter
\* leaves exactly target points on display, all with distinct original
\* indices.
C24_ExactTargetCount ==
    PointsFiltered =>
        /\ Len(Displayed) = LastTarget
        /\ Len(filteredIndices) = LastTarget
        /\ Distinct(filteredIndices)

\* the file the page shows
ShownFile == CHOOSE f \in DefaultSceneFiles : f.name = Val(pointCloud).file

\* C25: the point filter always selects from the stored original data, never
\* from a filtered subset; a change whose target is at least
\* originalPointCount puts exactly the original positions on display, in
\* their order; filtering never modifies the stored original data.
C25_FilterFromOriginal ==
    Loaded =>
        /\ originalPositions = Some(ShownFile.position)
        /\ originalPointCount = Len(ShownFile.position)
        /\ originalColors = IF ShownFile.hasColors
                            THEN Some([ i \in Idx(ShownFile.position) |-> ColorOf(i) ])
                            ELSE NoneV
        /\ LastTarget >= originalPointCount => Displayed = Val(originalPositions)
        /\ PointsFiltered =>
              /\ Len(filteredIndices) >= LastTarget
              /\ Displayed = [ i \in Idx(filteredIndices) |->
                                 Val(originalPositions)[filteredIndices[i]] ]
\* all points are back on display after fewer were shown
C25_Witness ==
    /\ Loaded /\ filteredIndices # << >> /\ LastTarget = originalPointCount
    /\ Displayed = Val(originalPositions)

BothFromURL == Len(loads) = 2 /\ \A i \in Idx(loads) : loads[i].via = "url"
\* C26: when two scene loads were started one after the other and both have
\* completed, the point cloud on display, the stored original data and
\* fileSize are those of the second, the scene params.selectedScene names.
C26_LastSelectedSceneWins ==
    (BothFromURL /\ \A i \in Idx(loads) : loads[i].stage = "done") =>
        /\ Loaded
        /\ Val(pointCloud).file = params.selectedScene
        /\ params.selectedScene = loads[2].file.name
        /\ originalPositions = Some(loads[2].file.position)
        /\ fileSize = loads[2].file.bytes

\* C27: the scene contains at most one point cloud; a non-null pointCloud is
\* that object and currentMaterial is its material; with a null pointCloud
\* the scene contains no point cloud.
C27_OnePointCloud ==
    /\ Cardinality(scene_children) <= 1
    /\ Loaded => /\ scene_children = { Val(pointCloud).id }
                 /\ currentMaterial = Some(Val(pointCloud).material)
    /\ ~Loaded => scene_children = {}
\* a second point cloud has replaced the first and got a shader material
C27_Witness ==
    /\ Loaded /\ Val(pointCloud).id = 2
    /\ loads[1].stage = "done"
    /\ Val(currentMaterial).type = "ShaderMaterial"

\* C28: whenever a point cloud is loaded, dragCounter is 0 and no drag-leave
\* timeout is pending, the dropzone is hidden and not drag-active; and
\* dragCounter is never negative.
C28_DropzoneHiddenAtRest ==
    /\ (Loaded /\ dragCounter = 0 /\ leaveTimeouts = 0) => dropzone = { "hidden" }
    /\ dragCounter >= 0

\* C29: whenever a point cloud is loaded and no load is in flight,
\* params.wavesEnabled is true exactly when currentAnimation and
\* params.animation are both 'spherical_waves'.
C29_WavesFlagMatchesAnimation ==
    (Loaded /\ NoLoadInFlight) =>
        (params.wavesEnabled <=> (currentAnimation = Waves /\ params.animation = Waves))

\* C30: loading a parseable file runs to completion: createPointCloud does
\* not throw for a non-empty position attribute, so the steps after it (info
\* updated, dropzone hidden) are executed.
C30_LoadRunsToCompletion ==
    \A i \in Idx(loads) :
        (loads[i].file.position # << >> /\ loads[i].stage \notin InFlight \cup { "failed" })
            => /\ loads[i].stage = "done"
               /\ (Loaded /\ Val(pointCloud).id = i) =>
                      params.points = Len(loads[i].file.position)

=============================================================================
